---------------------------- MODULE Spec2Model ----------------------------
(***************************************************************************)
(* A model of SimpleMindMap: the outline parser, the tree <-> graph        *)
(* mapper (app.js), the keyboard structural editor (KeyboardController),   *)
(* the node text editor (NodeEditor) and the import/export codecs          *)
(* (ImportExport).                                                         *)
(*                                                                         *)
(* Representation.                                                         *)
(*  - A JavaScript string is a sequence of one-character strings.          *)
(*  - A node id is an integer: RootId stands for 'root', n >= 0 stands for *)
(*    the string `task_${n}`; NullId stands for null / undefined.  Where   *)
(*    the code compares ids as strings (localeCompare) the model compares  *)
(*    their decimal digit strings.                                         *)
(*  - `undefined` / missing text fields are the empty sequence: the code   *)
(*    only ever tests them with ||, which treats '' and undefined alike.   *)
(*  - A vis.DataSet is the sequence of its items in insertion order.       *)
(*  - An outline forest (the `hierarchy` arrays of app.js) is its preorder *)
(*    listing: a sequence of [text, level, depth], depth being the number  *)
(*    of ancestors of the task.                                            *)
(***************************************************************************)
EXTENDS Integers, Sequences, FiniteSets, TLC

VARIABLES
    nodes,            \* networkData.nodes (vis.DataSet), insertion order
    edges,            \* networkData.edges (vis.DataSet), insertion order
    hasData,          \* networkData !== null
    selectedNodeId,   \* KeyboardController.selectedNodeId
    genPending,       \* inputs captured by pending handleGenerate timers
    last,             \* history: the last handler run, with the state it ran in
    inputValue,       \* el.input.value, the textarea
    currentInputText, \* currentInputText
    isUpdatingFromNetwork, \* the reentrancy flag of the sync
    timers,           \* pending timers set by handleTextareaChange
    hist,             \* history: the last sync and the last user text edit
    listeners,        \* keydown listeners KeyboardController.init has added
    history,          \* a HistoryManager instance, <<>> before construction
    pin,              \* input of the function under study (pure-function specs)
    pout,             \* its result
    pc                \* position of the pure-function specs

vars == <<nodes, edges, hasData, selectedNodeId, genPending, last,
          inputValue, currentInputText, isUpdatingFromNetwork, timers, hist,
          listeners, history, pin, pout, pc>>

editorVars == <<nodes, edges, hasData, selectedNodeId, genPending, last>>
syncVars == <<inputValue, currentInputText, isUpdatingFromNetwork, timers, hist>>
moduleVars == <<listeners, history>>
pureVars == <<pin, pout, pc>>
appVars == <<editorVars, syncVars, moduleVars>>
idleVars == <<pureVars, syncVars, moduleVars>>

-----------------------------------------------------------------------------
(* Identifiers *)

RootId == -1
NullId == -2

\* The stand-in for the magnitude of Date.now(): like a real reading
\* (1 7xx xxx xxx xxx) it starts with the digit 1 and has more digits than any
\* sequential id minted by buildNetworkData.
ClockBase == 1700

\* Number of distinct clock readings Date.now() may return.
MaxClock == 2

ClockReadings == { ClockBase + t : t \in 0 .. (MaxClock - 1) }

-----------------------------------------------------------------------------
(* Strings *)

SP == " "
TAB == "\t"
NL == "\n"

\* JavaScript's \s and String.prototype.trim whitespace (the part in use).
IsSpace(c) == c \in {SP, TAB, NL}

Min(a, b) == IF a <= b THEN a ELSE b
Max(a, b) == IF a >= b THEN a ELSE b

RECURSIVE Repeat(_, _)
\* s.repeat(n)
Repeat(s, n) == IF n <= 0 THEN <<>> ELSE s \o Repeat(s, n - 1)

RECURSIVE TrimStart(_)
TrimStart(s) ==
    IF s # <<>> /\ IsSpace(Head(s)) THEN TrimStart(Tail(s)) ELSE s

RECURSIVE TrimEnd(_)
TrimEnd(s) ==
    IF s # <<>> /\ IsSpace(s[Len(s)])
    THEN TrimEnd(SubSeq(s, 1, Len(s) - 1))
    ELSE s

\* String.prototype.trim
Trim(s) == TrimEnd(TrimStart(s))

RECURSIVE SplitAcc(_, _, _, _)
SplitAcc(s, sep, cur, acc) ==
    IF s = <<>> THEN Append(acc, cur)
    ELSE IF Head(s) = sep THEN SplitAcc(Tail(s), sep, <<>>, Append(acc, cur))
    ELSE SplitAcc(Tail(s), sep, Append(cur, Head(s)), acc)

\* String.prototype.split on a one-character separator: ''.split(x) is [''].
Split(s, sep) == SplitAcc(s, sep, <<>>, <<>>)

RECURSIVE Join(_, _)
\* Array.prototype.join with a one-character separator.
Join(parts, sep) ==
    IF parts = <<>> THEN <<>>
    ELSE IF Len(parts) = 1 THEN parts[1]
    ELSE parts[1] \o <<sep>> \o Join(Tail(parts), sep)

RECURSIVE FilterNonEmpty(_)
\* lines.filter(Boolean): drops the empty strings.
FilterNonEmpty(s) ==
    IF s = <<>> THEN <<>>
    ELSE IF Head(s) # <<>> THEN <<Head(s)>> \o FilterNonEmpty(Tail(s))
    ELSE FilterNonEmpty(Tail(s))

RECURSIVE Digits(_)
\* The decimal digits of n >= 0, most significant first.
Digits(n) == IF n < 10 THEN <<n>> ELSE Append(Digits(n \div 10), n % 10)

RECURSIVE LexLess(_, _)
\* a < b for digit strings compared character by character, a proper prefix
\* first.
LexLess(a, b) ==
    IF b = <<>> THEN FALSE
    ELSE IF a = <<>> THEN TRUE
    ELSE IF Head(a) # Head(b) THEN Head(a) < Head(b)
    ELSE LexLess(Tail(a), Tail(b))

\* a.localeCompare(b) < 0 for two ids: 'root' sorts before every 'task_...',
\* and 'task_10' before 'task_2'.
IdLess(a, b) ==
    IF a = RootId THEN b # RootId
    ELSE IF b = RootId THEN FALSE
    ELSE LexLess(Digits(a), Digits(b))

-----------------------------------------------------------------------------
(* Outline parser: app.js getIndentLevel, parseHierarchicalTasks *)

RECURSIVE LeadingWidthTabTwo(_)
\* The same with each tab counted as 2 spaces.
LeadingWidthTabTwo(line) ==
    IF line # <<>> /\ IsSpace(Head(line))
    THEN (IF Head(line) = TAB THEN 2 ELSE 1) + LeadingWidthTabTwo(Tail(line))
    ELSE 0

RECURSIVE LeadingWidth(_)
\* The length of the leading whitespace of a line with each tab in it replaced
\* by 4 spaces.
LeadingWidth(line) ==
    IF line # <<>> /\ IsSpace(Head(line))
    THEN (IF Head(line) = TAB THEN 4 ELSE 1) + LeadingWidth(Tail(line))
    ELSE 0

getIndentLevel(line) == LeadingWidth(line) \div 2

RECURSIVE PopStackStrict(_, _)
\* The loop with > in place of >=.
PopStackStrict(stack, level) ==
    IF Len(stack) > 1 /\ stack[Len(stack)] > level
    THEN PopStackStrict(SubSeq(stack, 1, Len(stack) - 1), level)
    ELSE stack

RECURSIVE PopStack(_, _)
\* while (stack.length > 1 && stack[stack.length - 1].level >= level) pop.
\* The stack holds the levels of the open ancestors above the sentinel -1.
PopStack(stack, level) ==
    IF Len(stack) > 1 /\ stack[Len(stack)] >= level
    THEN PopStack(SubSeq(stack, 1, Len(stack) - 1), level)
    ELSE stack

RECURSIVE ParseLines(_, _, _)
ParseLines(lines, stack, acc) ==
    IF lines = <<>> THEN acc
    ELSE LET rawLine == Head(lines)
             level == getIndentLevel(rawLine)
             text == Trim(rawLine)
             popped == PopStack(stack, level)
         IN  IF text = <<>> THEN ParseLines(Tail(lines), stack, acc)
             ELSE ParseLines(Tail(lines), Append(popped, level),
                     Append(acc, [level |-> level, text |-> text,
                                  depth |-> Len(popped) - 1]))

\* The forest, as its preorder listing: each task is a child of the task on
\* top of the stack when it is reached, so input order is preorder and the
\* depth of the stack is the number of its ancestors.
parseHierarchicalTasks(input) ==
    ParseLines(FilterNonEmpty(Split(input, NL)), <<-1>>, <<>>)

-----------------------------------------------------------------------------
(* Display labels: app.js buildNetworkData.processTask, NodeEditor *)

maxCharsPerLine == 20
ParentLabelMax == 40
ParentLabelKeep == 37

Ellipsis == <<".", ".", ".">>
ItalicOpen == <<"<", "i", ">">>
ItalicClose == <<"<", "/", "i", ">">>

RECURSIVE WrapLoop(_, _, _)
\* for (const word of words) { ... if (lines.length >= 2) break; }
\* Returns the pair <<currentLine, lines>> the loop ends with.
WrapLoop(words, currentLine, lines) ==
    IF words = <<>> THEN <<currentLine, lines>>
    ELSE LET word == Head(words)
             cand == Trim(currentLine \o <<SP>> \o word)
             fits == Len(cand) <= maxCharsPerLine
             cur2 == IF fits THEN cand ELSE word
             lines2 == IF fits \/ currentLine = <<>> THEN lines
                       ELSE Append(lines, currentLine)
         IN  IF Len(lines2) >= 2 THEN <<cur2, lines2>>
             ELSE WrapLoop(Tail(words), cur2, lines2)

\* The lines the loop produced, with the line in progress pushed when it is
\* not empty and fewer than 3 lines exist.
WrapLines(text) ==
    LET r == WrapLoop(Split(text, SP), <<>>, <<>>)
    IN  IF r[1] # <<>> /\ Len(r[2]) < 3 THEN Append(r[2], r[1]) ELSE r[2]

\* words.length > lines.join(' ').split(' ').length
WrapTruncated(text) ==
    Len(Split(text, SP)) > Len(Split(Join(WrapLines(text), SP), SP))

\* The label of an end node: up to 3 lines joined by a newline, the last one
\* losing its trailing 3 characters to '...' when the text was truncated.
LeafLabel(text) ==
    LET lines == WrapLines(text)
        n == Len(lines)
        lastLine == lines[n]
        cut == [lines EXCEPT ![n] =
                   SubSeq(lastLine, 1, Max(0, Len(lastLine) - 3)) \o Ellipsis]
    IN  IF WrapTruncated(text) THEN Join(cut, NL)
        ELSE Join(SubSeq(lines, 1, Min(3, n)), NL)

\* The label of a parent node: one line, cut at 37 characters when longer
\* than 40.
ParentLabel(text) ==
    IF Len(text) > ParentLabelMax
    THEN SubSeq(text, 1, ParentLabelKeep) \o Ellipsis
    ELSE text

\* displayLabel of processTask; with the italic font setting an end node's
\* label is wrapped in <i>...</i>, a parent's label is left as it is.
DisplayLabel(text, hasChildren, italic) ==
    IF hasChildren THEN ParentLabel(text)
    ELSE IF italic THEN ItalicOpen \o LeafLabel(text) \o ItalicClose
    ELSE LeafLabel(text)

-----------------------------------------------------------------------------
(* Tree -> graph: app.js buildNetworkData *)

BoxShape == "box"
DotShape == "dot"

RootLabel == <<"M", "i", "n", "d", " ", "M", "a", "p">>

\* nodes.push({ id: 'root', label: 'Mind Map', originalText: 'Mind Map',
\*              level: 0, shape: 'dot', ... })
RootNode ==
    [level |-> 0, id |-> RootId, label |-> RootLabel,
     originalText |-> RootLabel, shape |-> DotShape]

\* task.children.length > 0 for the i-th task of the preorder listing.
HasChildren(hierarchy, i) ==
    i < Len(hierarchy) /\ hierarchy[i + 1].depth > hierarchy[i].depth

RECURSIVE ParentIndex(_, _, _)
\* The index of the task whose processTask call runs processTask on task i
\* (the nearest preceding task that is less deep), 0 for a top-level task.
ParentIndex(hierarchy, i, j) ==
    IF j = 0 THEN 0
    ELSE IF hierarchy[j].depth < hierarchy[i].depth THEN j
    ELSE ParentIndex(hierarchy, i, j - 1)

\* const taskId = `task_${nodeId++}`: ids are minted 0, 1, 2, ... in preorder.
TaskId(i) == i - 1

\* nodeConfig of processTask(task, parentId, level, parentGroup); title always
\* equals originalText and is not kept apart.
TaskNode(hierarchy, i, italic) ==
    [level |-> hierarchy[i].depth + 1,
     id |-> TaskId(i),
     label |-> DisplayLabel(hierarchy[i].text, HasChildren(hierarchy, i), italic),
     originalText |-> hierarchy[i].text,
     shape |-> IF HasChildren(hierarchy, i) THEN DotShape ELSE BoxShape]

\* Every edge secondary, whatever the level of its target.
EdgeWidthSecondary(level) == 2

\* width: level === 1 ? 3 : 2
EdgeWidth(level) == IF level = 1 THEN 3 ELSE 2

TaskEdge(hierarchy, i) ==
    LET p == ParentIndex(hierarchy, i, i - 1)
    IN  [from |-> IF p = 0 THEN RootId ELSE TaskId(p),
         to |-> TaskId(i),
         width |-> EdgeWidth(hierarchy[i].depth + 1)]

\* { nodes: [root, task_0, ...], edges: [...] }, both in preorder: processTask
\* pushes a task's node and edge before it descends into the children.
buildNetworkData(hierarchy, italic) ==
    [nodes |-> <<RootNode>> \o
               [i \in 1 .. Len(hierarchy) |-> TaskNode(hierarchy, i, italic)],
     edges |-> [i \in 1 .. Len(hierarchy) |-> TaskEdge(hierarchy, i)]]

-----------------------------------------------------------------------------
(* Graph -> outline: app.js buildHierarchyFromNetwork, hierarchyToText *)

\* The ids of a sequence of nodes.
Ids(ns) == { ns[i].id : i \in 1 .. Len(ns) }

\* nodeMap[id]: the last node with that id (a DataSet holds one).
NodeOf(ns, id) ==
    ns[CHOOSE i \in 1 .. Len(ns) :
          /\ ns[i].id = id
          /\ \A j \in (i + 1) .. Len(ns) : ns[j].id # id]

\* text: node.originalText || node.title || node.label.replace(/\n/g, ' ')
NodeText(n) ==
    IF n.originalText # <<>> THEN n.originalText
    ELSE [k \in 1 .. Len(n.label) |-> IF n.label[k] = NL THEN SP ELSE n.label[k]]

RECURSIVE ChildEdges(_, _, _)
\* parent.children after the edges.forEach: one entry per edge from -> to whose
\* two ends are in nodeMap and whose target is not the root, in edge order.
ChildEdges(ns, es, id) ==
    IF es = <<>> THEN <<>>
    ELSE LET e == Head(es)
             rest == ChildEdges(ns, Tail(es), id)
         IN  IF e.from = id /\ e.from \in Ids(ns) /\ e.to \in Ids(ns)
                /\ e.to # RootId
             THEN <<e.to>> \o rest
             ELSE rest

\* The comparator of node.children.sort: level first, then id.localeCompare.
ChildBefore(ns, a, b) ==
    IF NodeOf(ns, a).level # NodeOf(ns, b).level
    THEN NodeOf(ns, a).level < NodeOf(ns, b).level
    ELSE IdLess(a, b)

RECURSIVE InsertSorted(_, _, _)
InsertSorted(ns, sorted, x) ==
    IF sorted = <<>> THEN <<x>>
    ELSE IF ChildBefore(ns, x, Head(sorted)) THEN <<x>> \o sorted
    ELSE <<Head(sorted)>> \o InsertSorted(ns, Tail(sorted), x)

RECURSIVE SortChildren(_, _)
\* Array.prototype.sort with that comparator (stable).
SortChildren(ns, ids) ==
    IF ids = <<>> THEN <<>>
    ELSE InsertSorted(ns, SortChildren(ns, SubSeq(ids, 1, Len(ids) - 1)),
                      ids[Len(ids)])

\* nodeMap[id].children of buildHierarchyFromNetwork, as ids.
SortedChildren(ns, es, id) == SortChildren(ns, ChildEdges(ns, es, id))

RECURSIVE HierarchyText(_, _, _, _)
\* hierarchyToText(hierarchy, indent) for the list `ids` of sibling nodes.
HierarchyText(ns, es, ids, indent) ==
    IF ids = <<>> THEN <<>>
    ELSE LET id == Head(ids)
         IN  Repeat(<<SP, SP>>, indent) \o NodeText(NodeOf(ns, id)) \o <<NL>>
             \o HierarchyText(ns, es, SortedChildren(ns, es, id), indent + 1)
             \o HierarchyText(ns, es, Tail(ids), indent)

\* hierarchyToText(buildHierarchyFromNetwork(nodes, edges)).trim(), the text
\* syncNetworkToTextarea writes; [] when there is no root node.
ReconstructText(ns, es) ==
    IF RootId \in Ids(ns)
    THEN Trim(HierarchyText(ns, es, SortedChildren(ns, es, RootId), 0))
    ELSE <<>>

-----------------------------------------------------------------------------
(* vis.DataSet, as the editor uses it *)

\* nodes.get(id) !== null
DataSetHas(items, id) == id \in Ids(items)

\* nodes.add(item) throws when an item with that id exists.
DataSetCanAddAlways(items, item) == TRUE

DataSetCanAdd(items, item) == ~DataSetHas(items, item.id)

\* nodes.remove(ids): ids that are not in the set are ignored.
DataSetRemove(items, ids) == SelectSeq(items, LAMBDA n : n.id \notin ids)

\* nodes.update({ id, shape }) on an existing item.
DataSetUpdateShape(items, id, shape) ==
    [i \in 1 .. Len(items) |->
        IF items[i].id = id THEN [items[i] EXCEPT !.shape = shape]
        ELSE items[i]]

\* edges.get({ filter: edge => edge.from === id })
EdgesFrom(es, id) == SelectSeq(es, LAMBDA e : e.from = id)

\* edges.get({ filter: edge => edge.to === id })
EdgesTo(es, id) == SelectSeq(es, LAMBDA e : e.to = id)

-----------------------------------------------------------------------------
(* Structural editor: KeyboardController *)

NewTaskLabel == <<"N", "e", "w", " ", "T", "a", "s", "k">>

\* The result of a handler that returned: the collections and the selection
\* it leaves.
Outcome(ns, es, sel) ==
    [nodes |-> ns, edges |-> es, sel |-> sel, threw |-> FALSE]

\* The result of a handler that an exception ended, with what it had done.
Thrown(ns, es, sel) ==
    [nodes |-> ns, edges |-> es, sel |-> sel, threw |-> TRUE]

\* newNode of addChildNode / addSiblingNode: no title, no originalText.
NewNode(id, level) ==
    [level |-> level, id |-> id, label |-> NewTaskLabel,
     originalText |-> <<>>, shape |-> BoxShape]

\* KeyboardController.addChildNode with Date.now() reading `now`.
addChildNode(ns, es, sel, now) ==
    IF sel = NullId \/ sel = RootId THEN Outcome(ns, es, sel)
    ELSE IF ~DataSetHas(ns, sel) THEN Outcome(ns, es, sel)
    ELSE LET selectedNode == NodeOf(ns, sel)
             newNode == NewNode(now, selectedNode.level + 1)
             added == Append(ns, newNode)
         IN  IF ~DataSetCanAdd(ns, newNode)
             THEN Thrown(ns, es, sel)        \* nodes.add threw
             ELSE Outcome(
                    IF selectedNode.shape = BoxShape
                    THEN DataSetUpdateShape(added, sel, DotShape)
                    ELSE added,
                    Append(es, [from |-> sel, to |-> now, width |-> 2]),
                    now)

\* KeyboardController.addSiblingNode with Date.now() reading `now`.
addSiblingNode(ns, es, sel, now) ==
    IF sel = NullId \/ sel = RootId THEN Outcome(ns, es, sel)
    ELSE IF EdgesTo(es, sel) = <<>> THEN Outcome(ns, es, sel)
    ELSE IF ~DataSetHas(ns, sel)
         THEN Thrown(ns, es, sel)            \* selectedNode.level threw
    ELSE LET parentId == EdgesTo(es, sel)[1].from
             selectedNode == NodeOf(ns, sel)
             newNode == NewNode(now, selectedNode.level)
         IN  IF ~DataSetCanAdd(ns, newNode)
             THEN Thrown(ns, es, sel)        \* nodes.add threw
             ELSE Outcome(Append(ns, newNode),
                          Append(es, [from |-> parentId, to |-> now,
                                      width |-> EdgeWidth(selectedNode.level)]),
                          now)

RECURSIVE DescendantsFrom(_, _, _)
\* children.forEach(edge => { push(edge.to); push(...getAllDescendants(edge.to)) })
\* over the list `children` of edges; `fuel` bounds the recursion depth, which
\* the code does not (an edge cycle overflows its stack).
DescendantsFrom(es, children, fuel) ==
    IF children = <<>> \/ fuel = 0 THEN <<>>
    ELSE <<Head(children).to>>
         \o DescendantsFrom(es, EdgesFrom(es, Head(children).to), fuel - 1)
         \o DescendantsFrom(es, Tail(children), fuel)

\* KeyboardController.getAllDescendants
getAllDescendants(es, nodeId) ==
    DescendantsFrom(es, EdgesFrom(es, nodeId), Len(es))

Range(s) == { s[i] : i \in 1 .. Len(s) }

\* this.networkData.nodes.remove(nodesToDelete): the node collection alone.
RemoveFromDocument(ns, es, ids) ==
    [nodes |-> DataSetRemove(ns, ids), edges |-> es]

\* KeyboardController.deleteNode
deleteNode(ns, es, sel) ==
    IF sel = NullId \/ sel = RootId THEN Outcome(ns, es, sel)
    ELSE LET nodesToDelete == Range(getAllDescendants(es, sel)) \cup {sel}
             parentEdges == EdgesTo(es, sel)
             removed == RemoveFromDocument(ns, es, nodesToDelete)
             parentId == parentEdges[1].from
             toBox == /\ parentEdges # <<>>
                      /\ EdgesFrom(removed.edges, parentId) = <<>>
                      /\ parentId # RootId
         IN  IF toBox /\ ~DataSetHas(removed.nodes, parentId)
             THEN Thrown(removed.nodes, removed.edges, sel) \* parentNode.font threw
             ELSE Outcome(IF toBox
                          THEN DataSetUpdateShape(removed.nodes, parentId, BoxShape)
                          ELSE removed.nodes,
                          removed.edges,
                          NullId)

\* NodeEditor.finishEditing(true) on node `id` with the trimmed, non-empty
\* text `newLabel`: hasChildren is read from the edge collection.
finishEditing(ns, es, id, newLabel) ==
    LET hasChildren == EdgesFrom(es, id) # <<>>
    IN  [i \in 1 .. Len(ns) |->
            IF ns[i].id = id
            THEN [ns[i] EXCEPT !.label = DisplayLabel(newLabel, hasChildren, FALSE),
                               !.originalText = newLabel]
            ELSE ns[i]]

-----------------------------------------------------------------------------
(* The editor as a state machine *)

\* Bounds of the editor specification.
MaxEdges == 4         \* no node is added to a Document of this many edges
MaxPendingGen == 1    \* pending handleGenerate timers
MaxEdited == 1        \* nodes of a Document that carry a text typed in the editor

\* An outline line: `indent` spaces, then the text.
Line(indent, text) == Repeat(<<SP>>, indent) \o text

\* The texts the user generates from.
GenInputs ==
    { Join(<<Line(0, <<"a">>), Line(0, <<"b">>)>>, NL),
      Join(<<Line(0, <<"a">>), Line(2, <<"b">>)>>, NL) }

\* The texts the user types into the node editor.
EditTexts == { <<"x", SP, "y">> }

NoOp == [threw |-> FALSE, op |-> "none"]

\* The record of handler `op` having run, and whether an exception ended it.
Ran(op, threw) == [threw |-> threw, op |-> op]

PureIdle == pin = <<>> /\ pout = <<>> /\ pc = "idle"

\* The textarea is empty, no timer is pending, nothing was synced or typed.
SyncIdle ==
    /\ inputValue = <<>>
    /\ currentInputText = <<>>
    /\ isUpdatingFromNetwork = FALSE
    /\ timers = <<>>
    /\ hist = [synced |-> <<>>, typed |-> FALSE, quiet |-> 0]

\* No keydown listener is installed and no HistoryManager is constructed.
ModulesIdle == listeners = 0 /\ history = <<>>

EditorInit ==
    /\ SyncIdle
    /\ ModulesIdle
    /\ nodes = <<>>
    /\ edges = <<>>
    /\ hasData = FALSE
    /\ selectedNodeId = NullId
    /\ genPending = <<>>
    /\ last = NoOp

Init == EditorInit /\ PureIdle

\* handleGenerate: el.input.value.trim() is captured by a 100 ms timer.
HandleGenerate ==
    \E input \in GenInputs :
        /\ Trim(input) # <<>>
        /\ Len(genPending) < MaxPendingGen
        /\ genPending' = Append(genPending, Trim(input))
        /\ last' = Ran("handleGenerate", FALSE)
        /\ UNCHANGED <<nodes, edges, hasData, selectedNodeId>>

\* The timer of handleGenerate: parse, build, drawNetwork.  drawNetwork runs
\* KeyboardController.init, which keeps selectedNodeId.
GenerateTimer ==
    /\ genPending # <<>>
    /\ LET data == buildNetworkData(parseHierarchicalTasks(Head(genPending)), FALSE)
       IN  /\ nodes' = data.nodes
           /\ edges' = data.edges
    /\ hasData' = TRUE
    /\ genPending' = Tail(genPending)
    /\ last' = Ran("generate", FALSE)
    /\ UNCHANGED selectedNodeId

\* network 'selectNode': the user clicks a node of the drawn network.
SelectNode ==
    \E id \in Ids(nodes) :
        /\ hasData
        /\ selectedNodeId' = id
        /\ last' = Ran("select", FALSE)
        /\ UNCHANGED <<nodes, edges, hasData, genPending>>

\* handleKeyPress guard: enabled, a network, and a selected node.
KeyEnabled == hasData /\ selectedNodeId # NullId

Install(op, r) ==
    /\ nodes' = r.nodes
    /\ edges' = r.edges
    /\ selectedNodeId' = r.sel
    /\ last' = Ran(op, r.threw)
    /\ UNCHANGED <<hasData, genPending>>

\* Tab
KeyTab ==
    \E now \in ClockReadings :
        /\ KeyEnabled
        /\ Len(edges) < MaxEdges
        /\ Install("addChild", addChildNode(nodes, edges, selectedNodeId, now))

\* Enter
KeyEnter ==
    \E now \in ClockReadings :
        /\ KeyEnabled
        /\ Len(edges) < MaxEdges
        /\ Install("addSibling", addSiblingNode(nodes, edges, selectedNodeId, now))

\* Delete / Backspace
KeyDelete ==
    /\ KeyEnabled
    /\ Install("delete", deleteNode(nodes, edges, selectedNodeId))

\* F2 (or the double click that selected the node), type, leave the editor:
\* NodeEditor.startEditing (the node exists) and finishEditing(true).
EditNode ==
    \E newLabel \in EditTexts :
        /\ KeyEnabled
        /\ DataSetHas(nodes, selectedNodeId)
        /\ NodeOf(nodes, selectedNodeId).originalText # newLabel
        /\ Cardinality({ i \in 1 .. Len(nodes) :
                           nodes[i].originalText \in EditTexts }) < MaxEdited
        /\ nodes' = finishEditing(nodes, edges, selectedNodeId, newLabel)
        /\ last' = Ran("edit", FALSE)
        /\ UNCHANGED <<edges, hasData, selectedNodeId, genPending>>

Next ==
    \/ HandleGenerate /\ UNCHANGED idleVars
    \/ GenerateTimer /\ UNCHANGED idleVars
    \/ SelectNode /\ UNCHANGED idleVars
    \/ KeyTab /\ UNCHANGED idleVars
    \/ KeyEnter /\ UNCHANGED idleVars
    \/ KeyDelete /\ UNCHANGED idleVars
    \/ EditNode /\ UNCHANGED idleVars

Spec == Init /\ [][Next]_vars

-----------------------------------------------------------------------------
(* Vocabulary of the claims about the editor *)

\* The nodes present in the Document.
Present == Ids(nodes)

RECURSIVE ReachFrom(_, _)
\* The least set that contains `seen` and the target of every edge of `es`
\* that leaves it.
ReachFrom(es, seen) ==
    LET more == { es[i].to : i \in { k \in 1 .. Len(es) : es[k].from \in seen } }
    IN  IF more \subseteq seen THEN seen ELSE ReachFrom(es, seen \cup more)

\* n and all its descendants: the transitive closure over the edges.
Subtree(es, n) == ReachFrom(es, {n})

\* The children of p that are present among the nodes ns.
PresentChildren(ns, es, p) ==
    { es[i].to : i \in { k \in 1 .. Len(es) :
                            es[k].from = p /\ es[k].to \in Ids(ns) } }

\* The number of edges that enter n.
InDegree(es, n) == Cardinality({ i \in 1 .. Len(es) : es[i].to = n })

\* A step in which the handler `op` ran with a non-root node selected.
StepOn(op) ==
    /\ last'.op = op
    /\ hasData
    /\ selectedNodeId \notin {NullId, RootId}
    /\ selectedNodeId \in Present

(* C2: Delete(n) on a non-root node n removes exactly n and all its         *)
(* descendants, and every edge incident to a removed node: afterwards the   *)
(* nodes are the old ones minus that closure, no edge has a removed node as *)
(* source or target, and the other edges are unchanged.                     *)
C2_DeleteRemovesSubtreeAndEdges ==
    [][StepOn("delete") =>
         LET gone == Subtree(edges, selectedNodeId)
         IN  /\ Ids(nodes') = Present \ gone
             /\ edges' = SelectSeq(edges,
                            LAMBDA e : e.from \notin gone /\ e.to \notin gone)]_vars

(* C3: when Delete leaves the deleted node's non-root parent with zero      *)
(* remaining children, the parent's shape becomes leaf ('box').             *)
C3_ParentBackToLeaf ==
    [][StepOn("delete") =>
         \A i \in 1 .. Len(edges) :
            LET p == edges[i].from
            IN  ( /\ edges[i].to = selectedNodeId
                  /\ p # RootId
                  /\ p \in Ids(nodes')
                  /\ PresentChildren(nodes', edges', p) = {} )
                => NodeOf(nodes', p).shape = BoxShape]_vars

(* C4: tree invariant: every non-root node present in the node collection   *)
(* has exactly one incoming edge, the source of that edge is a present      *)
(* node, every present node is reachable from 'root', and no present node   *)
(* is its own descendant.                                                   *)
C4_TreeInvariant ==
    hasData =>
        /\ \A n \in Present \ {RootId} :
              /\ InDegree(edges, n) = 1
              /\ \A i \in 1 .. Len(edges) :
                    edges[i].to = n => edges[i].from \in Present
        /\ Present \subseteq Subtree(edges, RootId)
        /\ \A n \in Present :
              \A i \in 1 .. Len(edges) :
                 edges[i].from = n => n \notin Subtree(edges, edges[i].to)

(* C5: shape invariant: a non-root node has container shape ('dot') if and  *)
(* only if at least one node present in the Document is its child, and leaf *)
(* shape ('box') otherwise.                                                 *)
C5_ShapeMatchesChildren ==
    hasData =>
        \A i \in 1 .. Len(nodes) :
            nodes[i].id # RootId =>
                nodes[i].shape =
                    IF PresentChildren(nodes, edges, nodes[i].id) # {}
                    THEN DotShape ELSE BoxShape

(* C10: node ids are unique within a Document in every reachable state,     *)
(* also when two add operations read the same clock value.                  *)
C10_NodeIdsUnique ==
    \A i, j \in 1 .. Len(nodes) : nodes[i].id = nodes[j].id => i = j

\* An add operation read a clock value whose id a present node already had
\* (the selected node exists, so nothing else threw), and was rejected.
C10_Witness_ClockCollision ==
    /\ last.op \in {"addChild", "addSibling"}
    /\ last.threw
    /\ selectedNodeId \in Present
    /\ \E t \in ClockReadings : t \in Present

-----------------------------------------------------------------------------
(* Round trip outline -> graph -> outline text -> outline *)

\* Bounds of the round-trip specification.
MaxTasks == 12        \* tasks of the forest
MaxTaskDepth == 2     \* ancestors of a task

\* The text of the i-th task of the forest: one letter, all distinct, every
\* third one followed by a second word.
Letters == <<"a", "b", "c", "d", "e", "f", "g", "h", "j", "k", "m", "n", "p", "q">>

TaskText(i) ==
    IF i % 3 = 0 THEN <<Letters[i], SP, "w">> ELSE <<Letters[i]>>

\* What identifies a forest: the texts in preorder with their depths, that is
\* the texts, the parent/child relation and the order of siblings.
Shape(hierarchy) ==
    [i \in 1 .. Len(hierarchy) |->
        [text |-> hierarchy[i].text, depth |-> hierarchy[i].depth]]

\* parse(reconstruct(buildGraph(T)))
RoundTrip(hierarchy, italic) ==
    LET data == buildNetworkData(hierarchy, italic)
    IN  parseHierarchicalTasks(ReconstructText(data.nodes, data.edges))

RtInit ==
    /\ pin = <<>>
    /\ pout = <<>>
    /\ pc = "build"
    /\ EditorInit

\* The forest grows by one task, in preorder: a child of the last task, or a
\* sibling of it or of one of its ancestors.
RtAddTask ==
    \E depth \in 0 .. MaxTaskDepth :
        /\ pc = "build"
        /\ Len(pin) < MaxTasks
        /\ depth <= (IF pin = <<>> THEN 0 ELSE pin[Len(pin)].depth + 1)
        /\ pin' = Append(pin, [level |-> depth,
                               text |-> TaskText(Len(pin) + 1), depth |-> depth])
        /\ UNCHANGED <<pout, pc>>

RtApply ==
    \E italic \in BOOLEAN :
        /\ pc = "build"
        /\ pin # <<>>
        /\ pout' = RoundTrip(pin, italic)
        /\ pc' = "done"
        /\ UNCHANGED pin

RtNext ==
    \/ RtAddTask /\ UNCHANGED appVars
    \/ RtApply /\ UNCHANGED appVars

SpecRoundTrip == RtInit /\ [][RtNext]_vars

(* C1: round trip: for every ordered outline forest T, parsing the text     *)
(* that buildHierarchyFromNetwork + hierarchyToText reconstruct from        *)
(* buildNetworkData(T) yields a forest structurally identical to T: same    *)
(* node texts, same parent/child relation, same order of siblings.          *)
C1_RoundTripIdentity ==
    pc = "done" => Shape(pout) = Shape(pin)

-----------------------------------------------------------------------------
(* Plain-text codec: import-export.js exportToPlainText, importFromText *)

\* The failure sentinel of the importers (null).
Null == [isNull |-> TRUE]

\* '# Mind Map Export\n\n'
ExportHeader ==
    <<"#", " ", "M", "i", "n", "d", " ", "M", "a", "p", " ",
      "E", "x", "p", "o", "r", "t", NL, NL>>

\* '(No data)'
NoDataText == <<"(", "N", "o", " ", "d", "a", "t", "a", ")">>

RECURSIVE ExportChildren(_, _, _)
\* nodeMap.get(id).children after the edges.forEach of exportToPlainText and
\* exportToFreeMind: one entry per edge from -> to whose two ends are in
\* nodeMap, in edge order.
ExportChildren(ns, es, id) ==
    IF es = <<>> THEN <<>>
    ELSE LET e == Head(es)
             rest == ExportChildren(ns, Tail(es), id)
         IN  IF e.from = id /\ e.from \in Ids(ns) /\ e.to \in Ids(ns)
             THEN <<e.to>> \o rest
             ELSE rest

RECURSIVE buildOutline(_, _, _, _, _)
\* children.forEach(child => buildOutline(child, level)) for the list `ids`
\* of children; `fuel` bounds the recursion depth, which the code does not
\* (an edge cycle overflows its stack).
buildOutline(ns, es, ids, level, fuel) ==
    IF ids = <<>> \/ fuel = 0 THEN <<>>
    ELSE LET id == Head(ids)
             own == IF id = RootId
                    THEN buildOutline(ns, es, ExportChildren(ns, es, id), 0, fuel - 1)
                    ELSE Repeat(<<SP, SP>>, level) \o NodeOf(ns, id).label \o <<NL>>
                         \o buildOutline(ns, es, ExportChildren(ns, es, id),
                                         level + 1, fuel - 1)
         IN  own \o buildOutline(ns, es, Tail(ids), level, fuel)

\* ImportExport.exportToPlainText({ nodes, edges })
exportToPlainText(ns, es) ==
    IF RootId \notin Ids(ns) THEN ExportHeader \o NoDataText
    ELSE ExportHeader \o buildOutline(ns, es, <<RootId>>, 0, Len(ns) + 1)

RECURSIVE ImportLeadingWidth(_)
\* match[1].replace(/\t/g, '  ').length: the leading whitespace of the line
\* with each tab in it replaced by 2 spaces.
ImportLeadingWidth(line) ==
    IF line # <<>> /\ IsSpace(Head(line))
    THEN (IF Head(line) = TAB THEN 2 ELSE 1) + ImportLeadingWidth(Tail(line))
    ELSE 0

\* The filter of importFromText: trimmed && !trimmed.startsWith('#')
IsImportLine(line) == Trim(line) # <<>> /\ Head(Trim(line)) # "#"

\* The root node importFromText and importFromFreeMind push.
ImportRootNode(label) ==
    [level |-> 0, id |-> RootId, label |-> label,
     originalText |-> <<>>, shape |-> DotShape]

\* The node both importers push for a task: always a box, no originalText.
ImportTaskNode(id, label, level) ==
    [level |-> level, id |-> id, label |-> label,
     originalText |-> <<>>, shape |-> BoxShape]

RECURSIVE PopImportStack(_, _)
\* while (stack.length > 1 && stack[stack.length - 1].level >= level) pop
PopImportStack(stack, level) ==
    IF Len(stack) > 1 /\ stack[Len(stack)].level >= level
    THEN PopImportStack(SubSeq(stack, 1, Len(stack) - 1), level)
    ELSE stack

RECURSIVE ImportLines(_, _, _, _)
\* lines.forEach of importFromText: nodeId is the next id, acc the nodes and
\* edges pushed so far.
ImportLines(lines, stack, nodeId, acc) ==
    IF lines = <<>> THEN acc
    ELSE LET line == Head(lines)
             level == ImportLeadingWidth(line) \div 2
             text == Trim(line)
             popped == PopImportStack(stack, level)
             parent == popped[Len(popped)]
         IN  ImportLines(Tail(lines),
                 Append(popped, [level |-> level, id |-> nodeId]),
                 nodeId + 1,
                 [nodes |-> Append(acc.nodes, ImportTaskNode(nodeId, text, level + 1)),
                  edges |-> Append(acc.edges,
                               [from |-> parent.id, to |-> nodeId,
                                width |-> IF level = 0 THEN 3 ELSE 2])])

\* ImportExport.importFromText(text).  text.split(/\r?\n/) is modelled on
\* texts without carriage returns.
importFromText(text) ==
    LET lines == SelectSeq(Split(text, NL), IsImportLine)
    IN  IF lines = <<>> THEN Null
        ELSE LET r == ImportLines(lines, <<[level |-> -1, id |-> RootId]>>, 0,
                          [nodes |-> <<ImportRootNode(RootLabel)>>, edges |-> <<>>])
             IN  [nodes |-> r.nodes, edges |-> r.edges, metadata |-> <<>>]

-----------------------------------------------------------------------------
(* Structured codec: import-export.js exportToJSON, importFromJSON *)

\* A JavaScript object is the list of its <<key, value>> pairs in insertion
\* order.  A JSON text is [ok |-> whether JSON.parse accepts it, top |-> the
\* pairs of its top-level object]; a string value is carried in its escaped
\* form, as it stands between the quotes of the text.

\* key in object
HasKey(pairs, key) == \E i \in 1 .. Len(pairs) : pairs[i][1] = key

\* object[key] for a key the object has (JSON.parse keeps the last duplicate).
GetKey(pairs, key) ==
    pairs[CHOOSE i \in 1 .. Len(pairs) :
             /\ pairs[i][1] = key
             /\ \A j \in (i + 1) .. Len(pairs) : pairs[j][1] # key][2]

QUOTE == "\""
BACKSLASH == "\\"

RECURSIVE JsonEscape(_)
\* JSON.stringify of a string, without the enclosing quotes.
JsonEscape(s) ==
    IF s = <<>> THEN <<>>
    ELSE LET c == Head(s)
         IN  (CASE c = QUOTE -> <<BACKSLASH, QUOTE>>
                [] c = BACKSLASH -> <<BACKSLASH, BACKSLASH>>
                [] c = NL -> <<BACKSLASH, "n">>
                [] c = TAB -> <<BACKSLASH, "t">>
                [] OTHER -> <<c>>)
             \o JsonEscape(Tail(s))

RECURSIVE JsonUnescape(_)
\* JSON.parse of the inside of a string literal.
JsonUnescape(s) ==
    IF s = <<>> THEN <<>>
    ELSE IF Head(s) = BACKSLASH /\ Len(s) >= 2
         THEN LET c == s[2]
              IN  <<CASE c = "n" -> NL
                      [] c = "t" -> TAB
                      [] OTHER -> c>>
                  \o JsonUnescape(SubSeq(s, 3, Len(s)))
         ELSE <<Head(s)>> \o JsonUnescape(Tail(s))

\* JSON.stringify of a node: a property whose value is undefined is left out.
NodeToJson(n) ==
    <<<<"id", n.id>>, <<"label", JsonEscape(n.label)>>>>
    \o (IF n.originalText # <<>>
        THEN <<<<"originalText", JsonEscape(n.originalText)>>>>
        ELSE <<>>)
    \o <<<<"level", n.level>>, <<"shape", n.shape>>>>

\* JSON.parse of a node object.
NodeFromJson(obj) ==
    [level |-> GetKey(obj, "level"),
     id |-> GetKey(obj, "id"),
     label |-> JsonUnescape(GetKey(obj, "label")),
     originalText |-> IF HasKey(obj, "originalText")
                      THEN JsonUnescape(GetKey(obj, "originalText"))
                      ELSE <<>>,
     shape |-> GetKey(obj, "shape")]

EdgeToJson(e) == <<<<"from", e.from>>, <<"to", e.to>>, <<"width", e.width>>>>

EdgeFromJson(obj) ==
    [from |-> GetKey(obj, "from"), to |-> GetKey(obj, "to"),
     width |-> GetKey(obj, "width")]

\* The metadata bag { layout, autoGroup, inputText } of handleExportJSON.
Metadata(layout, autoGroup, inputText) ==
    <<<<"layout", layout>>, <<"autoGroup", autoGroup>>, <<"inputText", inputText>>>>

\* JSON.stringify / JSON.parse of a metadata bag: inputText is its string of
\* free text.
MetadataToJson(md) ==
    [i \in 1 .. Len(md) |->
        IF md[i][1] = "inputText" THEN <<md[i][1], JsonEscape(md[i][2])>>
        ELSE md[i]]

MetadataFromJson(obj) ==
    [i \in 1 .. Len(obj) |->
        IF obj[i][1] = "inputText" THEN <<obj[i][1], JsonUnescape(obj[i][2])>>
        ELSE obj[i]]

\* ImportExport.exportToJSON(data) with new Date() reading `now`, without the
\* metadata bag.
exportToJSONNoMetadata(data, now) ==
    [ok |-> TRUE,
     top |-> <<<<"version", "1.0">>, <<"format", "mindmap-json">>,
               <<"created", now>>,
               <<"nodes", [i \in 1 .. Len(data.nodes) |-> NodeToJson(data.nodes[i])]>>,
               <<"edges", [i \in 1 .. Len(data.edges) |-> EdgeToJson(data.edges[i])]>>,
               <<"metadata", <<>>>>>>]

\* ImportExport.exportToJSON(data) with new Date() reading `now`.
exportToJSON(data, now) ==
    [ok |-> TRUE,
     top |-> <<<<"version", "1.0">>, <<"format", "mindmap-json">>,
               <<"created", now>>,
               <<"nodes", [i \in 1 .. Len(data.nodes) |-> NodeToJson(data.nodes[i])]>>,
               <<"edges", [i \in 1 .. Len(data.edges) |-> EdgeToJson(data.edges[i])]>>,
               <<"metadata", MetadataToJson(data.metadata)>>>>]

\* ImportExport.importFromJSON(jsonString): JSON.parse throwing and the
\* 'missing nodes or edges' error both end in the catch that returns null.
importFromJSON(json) ==
    IF ~json.ok THEN Null
    ELSE IF ~HasKey(json.top, "nodes") \/ ~HasKey(json.top, "edges") THEN Null
    ELSE LET ns == GetKey(json.top, "nodes")
             es == GetKey(json.top, "edges")
         IN  [nodes |-> [i \in 1 .. Len(ns) |-> NodeFromJson(ns[i])],
              edges |-> [i \in 1 .. Len(es) |-> EdgeFromJson(es[i])],
              metadata |-> IF HasKey(json.top, "metadata")
                           THEN MetadataFromJson(GetKey(json.top, "metadata"))
                           ELSE <<>>]

-----------------------------------------------------------------------------
(* Hierarchical XML: import-export.js importFromFreeMind *)

\* What DOMParser.parseFromString(xmlString, 'text/xml') yields:
\* [wellFormed |-> FALSE] stands for the document that holds a <parsererror>,
\* [wellFormed |-> TRUE, root |-> e] for a document with document element e.
\* An element is [tag, text, children]: text is its TEXT attribute, <<>> when
\* it has none.

\* 'Node'
DefaultNodeText == <<"N", "o", "d", "e">>

\* An element, and the usual shapes of one.
Element(tag, text, children) == [text |-> text, children |-> children, tag |-> tag]

NotFound == [found |-> FALSE]

RECURSIVE QueryMapNode(_, _)
\* xmlDoc.querySelector('map > node') among the elements `elems`, children of
\* an element tagged parentTag: the first element in document order that is
\* tagged 'node' and whose parent is tagged 'map'.
QueryMapNode(elems, parentTag) ==
    IF elems = <<>> THEN NotFound
    ELSE LET e == Head(elems)
         IN  IF e.tag = "node" /\ parentTag = "map"
             THEN [found |-> TRUE, element |-> e]
             ELSE LET below == QueryMapNode(e.children, e.tag)
                  IN  IF below.found THEN below
                      ELSE QueryMapNode(Tail(elems), parentTag)

RECURSIVE ParseXmlNodes(_, _)
\* parseNode over the list `elems` of sibling elements at `level`, as the
\* preorder listing of the calls: the text and the level of each.  It descends
\* into xmlNode.querySelectorAll(':scope > node'), the children tagged 'node'.
ParseXmlNodes(elems, level) ==
    IF elems = <<>> THEN <<>>
    ELSE LET e == Head(elems)
         IN  <<[text |-> IF e.text # <<>> THEN e.text ELSE DefaultNodeText,
                depth |-> level]>>
             \o ParseXmlNodes(SelectSeq(e.children, LAMBDA c : c.tag = "node"),
                              level + 1)
             \o ParseXmlNodes(Tail(elems), level)

\* The nodes and edges parseNode pushes: the first call pushes the root, call
\* i > 1 the node task_(i-2) and the edge from the node of the calling call.
FreeMindNode(calls, i) ==
    IF i = 1 THEN ImportRootNode(calls[1].text)
    ELSE ImportTaskNode(i - 2, calls[i].text, calls[i].depth)

FreeMindEdge(calls, i) ==
    LET p == ParentIndex(calls, i, i - 1)
    IN  [from |-> IF p = 1 THEN RootId ELSE p - 2,
         to |-> i - 2,
         width |-> EdgeWidth(calls[i].depth)]

\* ImportExport.importFromFreeMind(xmlString), on the parsed document.
importFromFreeMind(xmlDoc) ==
    IF ~xmlDoc.wellFormed THEN Null
    ELSE LET rootNode == QueryMapNode(<<xmlDoc.root>>, "#document")
         IN  IF ~rootNode.found
             THEN [nodes |-> <<>>, edges |-> <<>>, metadata |-> <<>>]
             ELSE LET calls == ParseXmlNodes(<<rootNode.element>>, 0)
                  IN  [nodes |-> [i \in 1 .. Len(calls) |-> FreeMindNode(calls, i)],
                       edges |-> [i \in 1 .. (Len(calls) - 1) |->
                                     FreeMindEdge(calls, i + 1)],
                       metadata |-> <<>>]

-----------------------------------------------------------------------------
(* The codecs as a state machine: handleFileImport, and the round trips *)

\* Bounds of the codec specification.
MaxOutlineLines == 3      \* lines of an outline a Document is built from
LongWordLen == 11         \* letters of each of the two words of the long text

\* The task texts of the outlines: one word, two short words, a text with a
\* quote in it, and two words that do not fit one line of a leaf label.
LongText == Repeat(<<"a">>, LongWordLen) \o <<SP>> \o Repeat(<<"b">>, LongWordLen)

CodecTexts == { <<"a">>, <<"b", SP, "c">>, <<"q", QUOTE>>, LongText }

\* Outlines of one to MaxOutlineLines lines, each line at most one level
\* deeper than the line before it.
OutlinesOf(n) ==
    IF n = 1 THEN { <<Line(0, t)>> : t \in CodecTexts }
    ELSE IF n = 2
         THEN { <<Line(0, t[1]), Line(2 * d, t[2])>> :
                  t \in CodecTexts \X CodecTexts, d \in 0 .. 1 }
         ELSE { <<Line(0, <<"a">>), Line(2 * d[1], t[1]), Line(2 * d[2], t[2])>> :
                  t \in CodecTexts \X CodecTexts,
                  d \in { e \in (0 .. 1) \X (0 .. 2) : e[2] <= e[1] + 1 } }

CodecOutlines ==
    { Join(ls, NL) : ls \in UNION { OutlinesOf(n) : n \in 1 .. MaxOutlineLines } }

\* The Documents buildNetworkData produces from them, with either setting of
\* the italic button.
CodecDocuments ==
    { buildNetworkData(parseHierarchicalTasks(o), italic) :
        o \in CodecOutlines, italic \in BOOLEAN }

\* The metadata bags handleExportJSON can pass.
MetadataBags ==
    { Metadata(layout, autoGroup, inputText) :
        layout \in {"hierarchical", "force"},
        autoGroup \in BOOLEAN,
        inputText \in { <<>>, Join(<<Line(0, <<"a">>), Line(2, <<"q", QUOTE>>)>>, NL) } }

\* A node of a hand-written structured payload.
PayloadNode(id, level, shape) ==
    NodeToJson([level |-> level, id |-> id, label |-> <<"n">>,
                originalText |-> <<"n">>, shape |-> shape])

PayloadEdge(from, to) == EdgeToJson([from |-> from, to |-> to, width |-> 2])

Payload(ns, es) == [ok |-> TRUE, top |-> <<<<"nodes", ns>>, <<"edges", es>>>>]

\* Structured payloads a user can pick: unparseable, without nodes, without
\* edges, a node with two parents, a cycle, an edge to a missing node, no
\* root, two nodes with one id, and a well-formed tree.
JsonPayloads ==
    { [ok |-> FALSE, top |-> <<>>],
      [ok |-> TRUE, top |-> <<<<"edges", <<>>>>>>],
      [ok |-> TRUE, top |-> <<<<"nodes", <<PayloadNode(RootId, 0, DotShape)>>>>>>],
      Payload(<<PayloadNode(RootId, 0, DotShape), PayloadNode(0, 1, DotShape),
                PayloadNode(1, 2, BoxShape)>>,
              <<PayloadEdge(RootId, 0), PayloadEdge(RootId, 1), PayloadEdge(0, 1)>>),
      Payload(<<PayloadNode(RootId, 0, DotShape), PayloadNode(0, 1, DotShape),
                PayloadNode(1, 2, DotShape)>>,
              <<PayloadEdge(RootId, 0), PayloadEdge(0, 1), PayloadEdge(1, 0)>>),
      Payload(<<PayloadNode(RootId, 0, DotShape), PayloadNode(0, 1, DotShape)>>,
              <<PayloadEdge(RootId, 0), PayloadEdge(0, 5)>>),
      Payload(<<PayloadNode(0, 1, DotShape), PayloadNode(1, 2, BoxShape)>>,
              <<PayloadEdge(0, 1)>>),
      Payload(<<PayloadNode(RootId, 0, DotShape), PayloadNode(0, 1, BoxShape),
                PayloadNode(0, 1, BoxShape)>>,
              <<PayloadEdge(RootId, 0)>>),
      Payload(<<PayloadNode(RootId, 0, DotShape), PayloadNode(0, 1, DotShape),
                PayloadNode(1, 2, BoxShape)>>,
              <<PayloadEdge(RootId, 0), PayloadEdge(0, 1)>>) }

\* Parsed XML documents a user can pick: malformed, a <map> without children,
\* a <map> with another element only, a document element that is no <map>, a
\* <map> around a tree, and a root <node> without TEXT.
XmlDocs ==
    { [wellFormed |-> FALSE],
      [wellFormed |-> TRUE, root |-> Element("map", <<>>, <<>>)],
      [wellFormed |-> TRUE,
       root |-> Element("map", <<>>, <<Element("attribute", <<>>, <<>>)>>)],
      [wellFormed |-> TRUE,
       root |-> Element("opml", <<>>, <<Element("node", <<"r">>, <<>>)>>)],
      [wellFormed |-> TRUE,
       root |-> Element("map", <<>>,
                  <<Element("node", <<"r">>,
                      <<Element("node", <<"a">>, <<>>),
                        Element("font", <<>>, <<Element("node", <<"x">>, <<>>)>>),
                        Element("node", <<"b">>,
                            <<Element("node", <<"c">>, <<>>)>>)>>)>>)],
      [wellFormed |-> TRUE,
       root |-> Element("map", <<>>, <<Element("node", <<>>, <<>>)>>)] }

\* Plain-text files a user can pick: comments only, and an outline.
TextFiles ==
    { <<"#", SP, "x", NL, NL>>,
      Join(<<Line(0, <<"a">>), Line(2, <<"b">>), <<TAB>> \o <<"c">>>>, NL) }

\* new vis.DataSet(items) throws when two items carry one id.
DataSetCanHold(items) == Cardinality(Ids(items)) = Len(items)

\* handleFileImport on a file with extension `name`, importer result
\* importedData: a null result shows 'Failed to import file.'; an exception
\* of new vis.DataSet shows 'Import failed.'; otherwise drawNetwork installs
\* the imported collections as networkData.  The input text of the metadata,
\* if any, is written to the textarea before the collections are created.
FileImport(name, content, importedData) ==
    /\ pin' = [name |-> name, content |-> content]
    /\ pout' = importedData
    /\ pc' = "import"
    /\ IF importedData = Null
       THEN /\ last' = Ran("import", FALSE)
            /\ UNCHANGED <<nodes, edges, hasData>>
       ELSE IF ~DataSetCanHold(importedData.nodes)
       THEN /\ last' = Ran("import", TRUE)
            /\ UNCHANGED <<nodes, edges, hasData>>
       ELSE /\ nodes' = importedData.nodes
            /\ edges' = importedData.edges
            /\ hasData' = TRUE
            /\ last' = Ran("import", FALSE)
    /\ IF /\ importedData # Null
          /\ HasKey(importedData.metadata, "inputText")
          /\ GetKey(importedData.metadata, "inputText") # <<>>
       THEN /\ inputValue' = GetKey(importedData.metadata, "inputText")
            /\ currentInputText' = GetKey(importedData.metadata, "inputText")
       ELSE UNCHANGED <<inputValue, currentInputText>>
    /\ UNCHANGED <<selectedNodeId, genPending, isUpdatingFromNetwork, timers, hist,
                   moduleVars>>

\* handleFileImport, by the extension of the file the user picked.
HandleFileImport ==
    \/ \E j \in JsonPayloads : FileImport("json", j, importFromJSON(j))
    \/ \E x \in XmlDocs : FileImport("mm", x, importFromFreeMind(x))
    \/ \E t \in TextFiles : FileImport("txt", t, importFromText(t))

\* The Documents the structured round trip is applied to: the built ones and
\* those the plain-text and XML importers return.
JsonDocuments ==
    { [nodes |-> d.nodes, edges |-> d.edges] : d \in CodecDocuments }
    \cup { [nodes |-> importFromText(t).nodes, edges |-> importFromText(t).edges] :
             t \in { f \in TextFiles : importFromText(f) # Null } }
    \cup { [nodes |-> importFromFreeMind(x).nodes,
            edges |-> importFromFreeMind(x).edges] :
             x \in { f \in XmlDocs : importFromFreeMind(f) # Null } }

\* The input of a round trip is drawn at the start: a built Document for the
\* plain-text format, a Document and a metadata bag for the structured one.
CodecInit ==
    /\ EditorInit
    /\ pout = <<>>
    /\ pc = "ready"
    /\ \/ \E d \in CodecDocuments : pin = [data |-> d, codec |-> "text"]
       \/ \E d \in JsonDocuments, md \in MetadataBags :
            pin = [data |-> [nodes |-> d.nodes, edges |-> d.edges, metadata |-> md],
                   codec |-> "json"]

\* An export of the Document that is then imported again, through the
\* plain-text format: pout is what the import returns.
TextRoundTrip ==
    /\ pc = "ready"
    /\ pin.codec = "text"
    /\ pout' = importFromText(exportToPlainText(pin.data.nodes, pin.data.edges))
    /\ pc' = "text"
    /\ UNCHANGED pin

\* The same through the structured format, exported at clock reading `now`.
JsonRoundTrip ==
    \E now \in ClockReadings :
        /\ pc = "ready"
        /\ pin.codec = "json"
        /\ pout' = importFromJSON(exportToJSON(pin.data, now))
        /\ pc' = "json"
        /\ UNCHANGED pin

CodecNext ==
    \/ HandleFileImport
    \/ TextRoundTrip /\ UNCHANGED appVars
    \/ JsonRoundTrip /\ UNCHANGED appVars

SpecCodec == CodecInit /\ [][CodecNext]_vars

-----------------------------------------------------------------------------
(* Vocabulary of the claims about the codecs *)

\* The edge set es is a tree over the nodes ns: one node per id, a root that
\* no edge enters, every edge between two nodes, one edge into each other
\* node, and every node reachable from the root.
IsTreeOver(ns, es) ==
    /\ Cardinality(Ids(ns)) = Len(ns)
    /\ RootId \in Ids(ns)
    /\ \A i \in 1 .. Len(es) : es[i].from \in Ids(ns) /\ es[i].to \in Ids(ns)
    /\ InDegree(es, RootId) = 0
    /\ \A id \in Ids(ns) \ {RootId} : InDegree(es, id) = 1
    /\ ReachFrom(es, {RootId}) = Ids(ns)

\* A structured payload that is unparseable, lacks nodes or edges, or whose
\* edge set is not a tree over its nodes.
InvalidPayload(json) ==
    \/ ~json.ok
    \/ ~HasKey(json.top, "nodes")
    \/ ~HasKey(json.top, "edges")
    \/ LET ns == GetKey(json.top, "nodes")
           es == GetKey(json.top, "edges")
       IN  ~IsTreeOver([i \in 1 .. Len(ns) |-> NodeFromJson(ns[i])],
                       [i \in 1 .. Len(es) |-> EdgeFromJson(es[i])])

\* The position among the nodes of doc of the parent of its i-th node.
ParentPosition(doc, i) ==
    LET parentId == EdgesTo(doc.edges, doc.nodes[i].id)[1].from
    IN  CHOOSE k \in 1 .. Len(doc.nodes) : doc.nodes[k].id = parentId

(* C6: importFromFreeMind applied to a well-formed XML document that has no *)
(* root <node> element under <map> returns the failure sentinel (null).     *)
C6_NoRootNodeIsNull ==
    ( /\ pc = "import"
      /\ pin.name = "mm"
      /\ pin.content.wellFormed
      /\ ~QueryMapNode(<<pin.content.root>>, "#document").found )
    => pout = Null

(* C7: a structured payload whose nodes or edges are missing, or whose edge *)
(* set is not a tree over its nodes (a node with two parents, a cycle, an   *)
(* edge to a missing node, no root), makes importFromJSON return null, and  *)
(* the import installs no Document.                                         *)
C7_InvalidPayloadIsNull ==
    [][( /\ pc' = "import"
         /\ pin'.name = "json"
         /\ InvalidPayload(pin'.content) )
       => ( /\ pout' = Null
            /\ nodes' = nodes
            /\ edges' = edges
            /\ hasData' = hasData )]_vars

(* C8: for every Document D produced by buildNetworkData,                   *)
(* importFromText(exportToPlainText(D)) has one node per non-root node of D *)
(* with the same full label text and the same parent/child nesting.         *)
C8_TextRoundTrip ==
    pc = "text" =>
        /\ pout # Null
        /\ Len(pout.nodes) = Len(pin.data.nodes)
        /\ \A i \in 2 .. Len(pout.nodes) :
              /\ pout.nodes[i].label = pin.data.nodes[i].originalText
              /\ ParentPosition(pout, i) = ParentPosition(pin.data, i)

(* C9: for every Document (nodes, edges) and metadata bag (layout,          *)
(* autoGroup, inputText), importFromJSON(exportToJSON(d)) returns node,     *)
(* edge and metadata content equal to the exported content, in the same     *)
(* order.                                                                   *)
C9_JsonRoundTrip ==
    pc = "json" =>
        /\ pout # Null
        /\ pout.nodes = pin.data.nodes
        /\ pout.edges = pin.data.edges
        /\ pout.metadata = pin.data.metadata

\* A structured round trip of a Document with a wrapped label, a quote in a
\* text, and an input text of two lines in the metadata bag.
C9_Witness_EscapedContent ==
    /\ pc = "json"
    /\ pout # Null
    /\ Len(pin.data.nodes) >= 3
    /\ \E i \in 1 .. Len(pin.data.nodes) : NL \in Range(pin.data.nodes[i].label)
    /\ \E i \in 1 .. Len(pin.data.nodes) : QUOTE \in Range(pin.data.nodes[i].label)
    /\ NL \in Range(GetKey(pin.data.metadata, "inputText"))
    /\ GetKey(pout.metadata, "autoGroup") = TRUE

-----------------------------------------------------------------------------
(* The outline parsers on their own: parseHierarchicalTasks, getIndentLevel, *)
(* importFromText                                                            *)

\* Bound of the parser specification.
MaxParseLines == 4    \* lines of an outline

\* The leading whitespace a line may carry.
IndentPrefixes ==
    { <<>>, <<SP>>, <<SP, SP>>, <<TAB>>, <<SP, SP, SP, SP>>, <<SP, TAB>> }

\* The i-th line of an outline: indentation and a one-letter text of its own,
\* or a blank line (empty, or spaces only).
ParseLineChoices(i) ==
    { p \o <<Letters[i]>> : p \in IndentPrefixes } \cup { <<>>, <<SP, SP>> }

\* The line with each tab of its leading whitespace replaced by two spaces.
RECURSIVE DetabLine(_)
DetabLine(line) ==
    IF line # <<>> /\ IsSpace(Head(line))
    THEN (IF Head(line) = TAB THEN <<SP, SP>> ELSE <<Head(line)>>)
         \o DetabLine(Tail(line))
    ELSE line

Detab(lines) == [i \in 1 .. Len(lines) |-> DetabLine(lines[i])]

\* pin is the list of the lines typed so far.
ParseInit ==
    /\ EditorInit
    /\ pin = <<>>
    /\ pout = <<>>
    /\ pc = "build"

ParseAddLine ==
    \E line \in ParseLineChoices(Len(pin) + 1) :
        /\ pc = "build"
        /\ Len(pin) < MaxParseLines
        /\ pin' = Append(pin, line)
        /\ UNCHANGED <<pout, pc>>

\* parseHierarchicalTasks on the outline, and on the outline with its
\* leading tabs replaced.
ApplyParse ==
    /\ pc = "build"
    /\ pin # <<>>
    /\ pout' = [plain |-> parseHierarchicalTasks(Join(pin, NL)),
                detabbed |-> parseHierarchicalTasks(Join(Detab(pin), NL))]
    /\ pc' = "parsed"
    /\ UNCHANGED pin

\* importFromText on the same two outlines.
ApplyImportText ==
    /\ pc = "build"
    /\ pin # <<>>
    /\ pout' = [plain |-> importFromText(Join(pin, NL)),
                detabbed |-> importFromText(Join(Detab(pin), NL))]
    /\ pc' = "imported"
    /\ UNCHANGED pin

\* getIndentLevel on each line.
ApplyIndentLevel ==
    /\ pc = "build"
    /\ pin # <<>>
    /\ pout' = [i \in 1 .. Len(pin) |-> getIndentLevel(pin[i])]
    /\ pc' = "levels"
    /\ UNCHANGED pin

ParseNext ==
    \/ ParseAddLine /\ UNCHANGED appVars
    \/ ApplyParse /\ UNCHANGED appVars
    \/ ApplyImportText /\ UNCHANGED appVars
    \/ ApplyIndentLevel /\ UNCHANGED appVars

SpecParse == ParseInit /\ [][ParseNext]_vars

\* The non-blank lines of an outline, in input order.
NonBlank(lines) == SelectSeq(lines, LAMBDA l : Trim(l) # <<>>)

\* The nearest line before the k-th whose indent level is strictly smaller,
\* 0 when there is none.
RuleParent(lines, k) ==
    LET smaller == { j \in 1 .. (k - 1) :
                       getIndentLevel(lines[j]) < getIndentLevel(lines[k]) }
    IN  IF smaller = {} THEN 0
        ELSE CHOOSE j \in smaller : \A m \in smaller : m <= j

(* C11: parseHierarchicalTasks makes each non-blank line a child of the     *)
(* nearest preceding non-blank line whose indent level is strictly smaller, *)
(* or a top-level node when there is none (also for an indented first       *)
(* line); the tasks keep the input order of their lines.                    *)
C11_ParentRule ==
    pc = "parsed" =>
        LET lines == NonBlank(pin)
            forest == pout.plain
        IN  /\ Len(forest) = Len(lines)
            /\ \A k \in 1 .. Len(lines) :
                  /\ forest[k].text = Trim(lines[k])
                  /\ ParentIndex(forest, k, k - 1) = RuleParent(lines, k)
                  /\ (RuleParent(lines, k) = 0) = (forest[k].depth = 0)
                  /\ RuleParent(lines, k) # 0 =>
                        forest[k].depth = forest[RuleParent(lines, k)].depth + 1

\* An outline with an indented first line, a blank line, a less indented
\* line and a child of that line.
C11_Witness_SkipsAndReturns ==
    /\ pc = "parsed"
    /\ Len(pin) = 4
    /\ getIndentLevel(pin[1]) = 2
    /\ Trim(pin[2]) = <<>>
    /\ getIndentLevel(pin[3]) = 1
    /\ getIndentLevel(pin[4]) = 2
    /\ Len(pout.plain) = 3
    /\ pout.plain[3].depth = 1

\* The number of whitespace characters a line starts with.
LeadingCount(line) ==
    CHOOSE n \in 0 .. Len(line) :
        /\ \A i \in 1 .. n : IsSpace(line[i])
        /\ n < Len(line) => ~IsSpace(line[n + 1])

\* The length of the leading whitespace once each tab in it is 4 spaces.
ExpandedWidth(line) ==
    LET n == LeadingCount(line)
    IN  4 * Cardinality({ i \in 1 .. n : line[i] = TAB })
        + Cardinality({ i \in 1 .. n : line[i] # TAB })

C13_TabIsOneLevel ==
    /\ pc = "parsed" => Shape(pout.plain) = Shape(pout.detabbed)
    /\ pc = "imported" => pout.plain = pout.detabbed

-----------------------------------------------------------------------------
(* Keyword classifier: app.js KEYWORD_GROUPS, detectKeyword *)

\* Object.entries(KEYWORD_GROUPS), in declaration order.
KEYWORD_GROUPS ==
    <<
      [group |-> "Design",
       keywords |->
         <<<<"d", "e", "s", "i", "g", "n">>,
           <<"u", "i">>,
           <<"u", "x">>,
           <<"m", "o", "c", "k", "u", "p">>,
           <<"p", "r", "o", "t", "o", "t", "y", "p", "e">>,
           <<"w", "i", "r", "e", "f", "r", "a", "m", "e">>,
           <<"s", "k", "e", "t", "c", "h">>>>],
      [group |-> "Development",
       keywords |->
         <<<<"c", "o", "d", "e">>,
           <<"d", "e", "v", "e", "l", "o", "p">>,
           <<"b", "u", "i", "l", "d">>,
           <<"i", "m", "p", "l", "e", "m", "e", "n", "t">>,
           <<"p", "r", "o", "g", "r", "a", "m">>,
           <<"c", "r", "e", "a", "t", "e">>,
           <<"a", "p", "i">>>>],
      [group |-> "Testing",
       keywords |->
         <<<<"t", "e", "s", "t">>,
           <<"q", "a">>,
           <<"v", "e", "r", "i", "f", "y">>,
           <<"v", "a", "l", "i", "d", "a", "t", "e">>,
           <<"d", "e", "b", "u", "g">>,
           <<"c", "h", "e", "c", "k">>>>],
      [group |-> "Documentation",
       keywords |->
         <<<<"d", "o", "c", "u", "m", "e", "n", "t">>,
           <<"w", "r", "i", "t", "e">>,
           <<"r", "e", "a", "d", "m", "e">>,
           <<"g", "u", "i", "d", "e">>,
           <<"m", "a", "n", "u", "a", "l">>,
           <<"t", "u", "t", "o", "r", "i", "a", "l">>>>],
      [group |-> "Deployment",
       keywords |->
         <<<<"d", "e", "p", "l", "o", "y">>,
           <<"r", "e", "l", "e", "a", "s", "e">>,
           <<"p", "u", "b", "l", "i", "s", "h">>,
           <<"l", "a", "u", "n", "c", "h">>,
           <<"p", "r", "o", "d", "u", "c", "t", "i", "o", "n">>>>] >>

\* The lower-case form of each upper-case letter.
LowerOf ==
    ("A" :> "a") @@ ("B" :> "b") @@ ("C" :> "c") @@ ("D" :> "d") @@ ("E" :> "e")
    @@ ("F" :> "f") @@ ("G" :> "g") @@ ("H" :> "h") @@ ("I" :> "i") @@ ("J" :> "j")
    @@ ("K" :> "k") @@ ("L" :> "l") @@ ("M" :> "m") @@ ("N" :> "n") @@ ("O" :> "o")
    @@ ("P" :> "p") @@ ("Q" :> "q") @@ ("R" :> "r") @@ ("S" :> "s") @@ ("T" :> "t")
    @@ ("U" :> "u") @@ ("V" :> "v") @@ ("W" :> "w") @@ ("X" :> "x") @@ ("Y" :> "y")
    @@ ("Z" :> "z")

\* String.prototype.toLowerCase without a change of case.
toLowerCaseIdentity(s) == s

\* String.prototype.toLowerCase
toLowerCase(s) ==
    [i \in 1 .. Len(s) |-> IF s[i] \in DOMAIN LowerOf THEN LowerOf[s[i]] ELSE s[i]]

\* String.prototype.includes
Includes(s, kw) ==
    \E i \in 1 .. (Len(s) - Len(kw) + 1) : SubSeq(s, i, i + Len(kw) - 1) = kw

RECURSIVE FirstGroup(_, _)
\* for (const [group, keywords] of entries)
\*   if (keywords.some(kw => lower.includes(kw))) return group;
\* return 'Other';
FirstGroup(entries, lower) ==
    IF entries = <<>> THEN "Other"
    ELSE IF \E k \in 1 .. Len(Head(entries).keywords) :
               Includes(lower, Head(entries).keywords[k])
         THEN Head(entries).group
         ELSE FirstGroup(Tail(entries), lower)

detectKeyword(text) == FirstGroup(KEYWORD_GROUPS, toLowerCase(text))

\* Bound of the classifier specification.
MaxWords == 3         \* words of a task text

\* The words of the task texts.
ClassifierWords ==
    { <<"D", "E", "S", "I", "G", "N">>,
      <<"T", "e", "s", "t">>,
      <<"d", "e", "p", "l", "o", "y">>,
      <<"C", "o", "d", "e">>,
      <<"w", "r", "i", "t", "e">>,
      <<"z", "z", "z">>,
      <<"B", "u", "i", "l", "d">>,
      <<"l", "a", "u", "n", "c", "h">> }

\* The number of words of a text of words separated by single spaces.
WordCount(text) ==
    IF text = <<>> THEN 0
    ELSE Cardinality({ i \in 1 .. Len(text) : text[i] = SP }) + 1

\* pin is the task text typed so far.
ClassifyInit ==
    /\ EditorInit
    /\ pin = <<>>
    /\ pout = <<>>
    /\ pc = "build"

ClassifyAddWord ==
    \E w \in ClassifierWords :
        /\ pc = "build"
        /\ WordCount(pin) < MaxWords
        /\ pin' = IF pin = <<>> THEN w ELSE pin \o <<SP>> \o w
        /\ UNCHANGED <<pout, pc>>

ApplyDetectKeyword ==
    /\ pc = "build"
    /\ pin # <<>>
    /\ pout' = detectKeyword(pin)
    /\ pc' = "classified"
    /\ UNCHANGED pin

ClassifyNext ==
    \/ ClassifyAddWord /\ UNCHANGED appVars
    \/ ApplyDetectKeyword /\ UNCHANGED appVars

SpecClassify == ClassifyInit /\ [][ClassifyNext]_vars

\* The categories in declaration order.
DeclarationOrder ==
    <<"Design", "Development", "Testing", "Documentation", "Deployment">>

\* The keywords declared for a category.
KeywordsOf(category) ==
    UNION { Range(KEYWORD_GROUPS[g].keywords) :
              g \in { h \in 1 .. Len(KEYWORD_GROUPS) :
                        KEYWORD_GROUPS[h].group = category } }

\* Two characters that are the same letter, whatever their case.
SameLetter(a, b) ==
    \/ a = b
    \/ a \in DOMAIN LowerOf /\ LowerOf[a] = b
    \/ b \in DOMAIN LowerOf /\ LowerOf[b] = a

\* kw occurs in text as a case-insensitive substring.
OccursIn(kw, text) ==
    \E i \in 1 .. (Len(text) - Len(kw) + 1) :
        \A j \in 1 .. Len(kw) : SameLetter(kw[j], text[i + j - 1])

(* C14: detectKeyword returns the first category, in declaration order      *)
(* Design, Development, Testing, Documentation, Deployment, that has a      *)
(* keyword occurring as a case-insensitive substring of the text, wherever  *)
(* the keywords occur in the text, and 'Other' when no keyword occurs.      *)
C14_ClassifierPriority ==
    pc = "classified" =>
        LET matching == { k \in 1 .. Len(DeclarationOrder) :
                            \E kw \in KeywordsOf(DeclarationOrder[k]) :
                                OccursIn(kw, pin) }
        IN  IF matching = {} THEN pout = "Other"
            ELSE pout = DeclarationOrder[CHOOSE k \in matching :
                                            \A m \in matching : k <= m]

\* A text whose first word is a Testing keyword and whose later, upper-case
\* word is a Design keyword.
C14_Witness_LaterKeywordWins ==
    /\ pc = "classified"
    /\ Len(pin) > 4
    /\ SubSeq(pin, 1, 4) = <<"T", "e", "s", "t">>
    /\ OccursIn(<<"d", "e", "s", "i", "g", "n">>, pin)
    /\ pout = "Design"

-----------------------------------------------------------------------------
(* The label of an end node on its own: buildNetworkData.processTask *)

\* Bound of the label specification.
MaxLabelWords == 5    \* words of a leaf text

\* The lengths of the words of a leaf text: a letter, a word two of which fit
\* a line, a word that fills more than half a line, a word too long for one.
WordLengths == { 1, 7, 11, 21 }

\* The k-th word of a text, of length n: its own letter, repeated.
LabelWord(k, n) == Repeat(<<Letters[k]>>, n)

\* pin is the leaf text typed so far: words separated by one or two spaces.
LabelInit ==
    /\ EditorInit
    /\ pin = <<>>
    /\ pout = <<>>
    /\ pc = "build"

LabelAddWord ==
    \E n \in WordLengths, sep \in { <<SP>>, <<SP, SP>> } :
        LET k == Len(FilterNonEmpty(Split(pin, SP))) + 1
        IN  /\ pc = "build"
            /\ k <= MaxLabelWords
            /\ pin' = IF pin = <<>> THEN LabelWord(k, n)
                      ELSE pin \o sep \o LabelWord(k, n)
            /\ UNCHANGED <<pout, pc>>

\* buildNetworkData on the forest of that one task: pout is the label of its
\* node.
ApplyLeafLabel ==
    /\ pc = "build"
    /\ pin # <<>>
    /\ pout' = buildNetworkData(<<[level |-> 0, text |-> pin, depth |-> 0]>>,
                                FALSE).nodes[2].label
    /\ pc' = "labelled"
    /\ UNCHANGED pin

LabelNext ==
    \/ LabelAddWord /\ UNCHANGED appVars
    \/ ApplyLeafLabel /\ UNCHANGED appVars

SpecLabel == LabelInit /\ [][LabelNext]_vars

(* C15: for every leaf whose text is at most 20 characters long (trimmed at *)
(* both ends, with arbitrary interior spacing), the display label built by  *)
(* buildNetworkData is exactly one line and carries no ellipsis.            *)
C15_ShortLeafOneLine ==
    (pc = "labelled" /\ Len(pin) <= maxCharsPerLine) =>
        /\ NL \notin Range(pout)
        /\ "." \notin Range(pout)

RECURSIVE GreedyLines(_, _)
\* The greedy word wrap of a list of words: each line takes as many of the
\* next words, joined by one space, as fit in 20 characters (one at least).
GreedyLines(words, line) ==
    IF words = <<>> THEN (IF line = <<>> THEN <<>> ELSE <<line>>)
    ELSE IF line = <<>> THEN GreedyLines(Tail(words), Head(words))
    ELSE IF Len(line) + 1 + Len(Head(words)) <= maxCharsPerLine
         THEN GreedyLines(Tail(words), line \o <<SP>> \o Head(words))
         ELSE <<line>> \o GreedyLines(words, <<>>)

\* The label the wrap rule gives: the first 3 lines, the last of them with
\* its trailing 3 characters replaced by an ellipsis when words remain.
GreedyLabel(text) ==
    LET all == GreedyLines(FilterNonEmpty(Split(text, SP)), <<>>)
        shown == SubSeq(all, 1, Min(3, Len(all)))
        lastLine == shown[Len(shown)]
    IN  IF Len(all) > 3
        THEN Join([shown EXCEPT ![3] =
                      SubSeq(lastLine, 1, Max(0, Len(lastLine) - 3)) \o Ellipsis],
                  NL)
        ELSE Join(shown, NL)

(* C16: for every leaf text, the display label built by buildNetworkData    *)
(* equals the greedy word wrap of the text: words packed in input order,    *)
(* each line taking as many of the next words as fit in 20 characters,      *)
(* every line at most 20 characters, at most 3 lines, and the last line's   *)
(* trailing 3 characters replaced by an ellipsis exactly when words remain  *)
(* unconsumed after the third line.                                         *)
C16_GreedyWrap ==
    pc = "labelled" =>
        /\ pout = GreedyLabel(pin)
        /\ Len(Split(pout, NL)) <= 3
        /\ \A i \in 1 .. Len(Split(pout, NL)) :
              Len(Split(pout, NL)[i]) <= maxCharsPerLine


-----------------------------------------------------------------------------
(* Reconstruction after edits: syncNetworkToTextarea, then regenerateMindMap,
   then syncNetworkToTextarea again *)

\* Bounds of the reconstruction specification.
MaxIdemLines == 11     \* lines of the outline the Document is generated from
MaxIdemNested == 3     \* lines that may be nested under the line before them

\* The Document regenerateMindMap draws from the text of the textarea.
Regenerated(input) == buildNetworkData(parseHierarchicalTasks(input), FALSE)

\* What the textarea holds after a sync of the Document, then after a
\* regeneration from that text and a second sync.
Resync(ns, es) ==
    LET first == ReconstructText(ns, es)
        data == Regenerated(first)
    IN  [first |-> first, second |-> ReconstructText(data.nodes, data.edges)]

IdemInit ==
    /\ pin = <<>>
    /\ pout = <<>>
    /\ pc = "build"
    /\ EditorInit

\* The user types one more line of the outline.
IdemAddLine ==
    \E indent \in {0, 2} :
        /\ pc = "build"
        /\ Len(pin) < MaxIdemLines
        /\ indent > 0 => Len(pin) \in 1 .. (MaxIdemNested - 1)
        /\ pin' = Append(pin, Line(indent, TaskText(Len(pin) + 1)))
        /\ UNCHANGED <<pout, pc>>

\* handleGenerate on the typed outline.
IdemGenerate ==
    /\ pc = "build"
    /\ Trim(Join(pin, NL)) # <<>>
    /\ genPending' = <<Trim(Join(pin, NL))>>
    /\ last' = Ran("handleGenerate", FALSE)
    /\ pc' = "clicked"
    /\ UNCHANGED <<nodes, edges, hasData, selectedNodeId, pin, pout, syncVars, moduleVars>>

\* One structural or text edit of the generated Document.
IdemEdit(edit) ==
    /\ pc = "generated"
    /\ edit
    /\ pc' = "edited"
    /\ UNCHANGED <<pin, pout, syncVars, moduleVars>>

\* The sync of the Document, a regeneration from the synced text, and the
\* sync of the regenerated Document.
ApplyResync ==
    /\ pc \in {"generated", "edited"}
    /\ ReconstructText(nodes, edges) # <<>>
    /\ pout' = Resync(nodes, edges)
    /\ pc' = "resynced"
    /\ UNCHANGED pin

IdemNext ==
    \/ IdemAddLine /\ UNCHANGED appVars
    \/ IdemGenerate
    \/ GenerateTimer /\ pc = "clicked" /\ pc' = "generated"
                     /\ UNCHANGED <<pin, pout, syncVars, moduleVars>>
    \/ SelectNode /\ pc = "generated" /\ UNCHANGED idleVars
    \/ IdemEdit(KeyTab)
    \/ IdemEdit(KeyEnter)
    \/ IdemEdit(KeyDelete)
    \/ IdemEdit(EditNode)
    \/ ApplyResync /\ UNCHANGED appVars

SpecIdem == IdemInit /\ [][IdemNext]_vars

(* C17: reconstruction is idempotent on edited Documents: for every         *)
(* Document reachable by generate followed by add child, add sibling,       *)
(* delete and node-text edits, rebuilding a Document from the reconstructed *)
(* text (parse, then buildNetworkData) and reconstructing again yields the  *)
(* same outline text as the first reconstruction.                           *)
C17_ReconstructionIdempotent ==
    pc = "resynced" => pout.second = pout.first

-----------------------------------------------------------------------------
(* Textarea and graph: syncNetworkToTextarea, handleTextareaChange and its
   debounce timer, regenerateMindMap, handleClear *)

DebounceMs == 1000     \* the delay of the timer of handleTextareaChange
TickMs == 500          \* the step of the clock of the sync specification
MaxSyncEdges == 2      \* edges of a Document the user adds a node to

\* The texts the user leaves in the textarea after an edit.
SyncTexts ==
    { <<"a">>,
      Join(<<Line(0, <<"a">>), Line(4, <<"b">>)>>, NL) }

\* A pending timer: the time since it was set, and whether
\* handleTextareaChange.timeout holds its id.
Timer(elapsed, current) == [elapsed |-> elapsed, current |-> current]

\* clearTimeout(handleTextareaChange.timeout): a no-op when that timer fired.
clearTimeout(ts) == SelectSeq(ts, LAMBDA t : ~t.current)

\* handleTextareaChange.timeout = setTimeout(..., 1000)
setTimeout(ts) ==
    [i \in 1 .. Len(ts) |-> Timer(ts[i].elapsed, FALSE)] \o <<Timer(0, TRUE)>>

\* handleTextareaChange: the pending timers after the 'input' event.
handleTextareaChange(ts, updating, has) ==
    IF updating \/ ~has THEN ts ELSE setTimeout(clearTimeout(ts))

\* syncNetworkToTextarea: the textarea and currentInputText after the sync.
syncNetworkToTextarea(ns, es, current) ==
    [current |-> ReconstructText(ns, es), value |-> ReconstructText(ns, es)]

\* The sync ran: the flag is set and reset within the handler.
Synced(ns, es) ==
    LET r == syncNetworkToTextarea(ns, es, currentInputText)
    IN  /\ inputValue' = r.value
        /\ currentInputText' = r.current
        /\ hist' = [hist EXCEPT !.synced = r.value, !.typed = FALSE]
        /\ UNCHANGED <<isUpdatingFromNetwork, timers>>

\* The user edits the textarea: the 'input' event runs handleTextareaChange.
UserTypes ==
    \E text \in SyncTexts :
        /\ text # inputValue
        /\ inputValue' = text
        /\ timers' = handleTextareaChange(timers, isUpdatingFromNetwork, hasData)
        /\ hist' = [hist EXCEPT !.typed = TRUE, !.quiet = 0]
        /\ last' = Ran("input", FALSE)
        /\ UNCHANGED <<nodes, edges, hasData, selectedNodeId, genPending,
                       currentInputText, isUpdatingFromNetwork>>

\* TickMs pass.  Times are kept up to DebounceMs.
Advance(ms) == Min(ms + TickMs, DebounceMs)

\* The 100 ms timer of handleGenerate runs before TickMs have passed.
Tick ==
    /\ genPending = <<>>
    /\ timers' = [i \in 1 .. Len(timers) |->
                     Timer(Advance(timers[i].elapsed), timers[i].current)]
    /\ hist' = [hist EXCEPT !.quiet = Advance(hist.quiet)]
    /\ timers' # timers \/ hist' # hist
    /\ UNCHANGED <<editorVars, inputValue, currentInputText, isUpdatingFromNetwork>>

\* A timer of handleTextareaChange may run.
Expired(i) == i \in 1 .. Len(timers) /\ timers[i].elapsed >= DebounceMs

RemoveAt(s, i) == SubSeq(s, 1, i - 1) \o SubSeq(s, i + 1, Len(s))

\* The callback finds a text to regenerate from: regenerateMindMap.
DebounceRegenerates ==
    \E i \in 1 .. Len(timers) :
        /\ Expired(i)
        /\ Trim(inputValue) # <<>>
        /\ Trim(inputValue) # currentInputText
        /\ timers' = RemoveAt(timers, i)
        /\ currentInputText' = Trim(inputValue)
        /\ nodes' = Regenerated(Trim(inputValue)).nodes
        /\ edges' = Regenerated(Trim(inputValue)).edges
        /\ hasData' = TRUE
        /\ last' = Ran("regenerate", FALSE)
        /\ UNCHANGED <<selectedNodeId, genPending, inputValue,
                       isUpdatingFromNetwork, hist>>

\* The callback finds the textarea empty or equal to currentInputText.
DebounceSkips ==
    \E i \in 1 .. Len(timers) :
        /\ Expired(i)
        /\ Trim(inputValue) = <<>> \/ Trim(inputValue) = currentInputText
        /\ timers' = RemoveAt(timers, i)
        /\ last' = Ran("debounce", FALSE)
        /\ UNCHANGED <<nodes, edges, hasData, selectedNodeId, genPending,
                       inputValue, currentInputText, isUpdatingFromNetwork, hist>>

\* network 'afterDrawing': the network exists and was redrawn.
AfterDrawing ==
    /\ hasData
    /\ ~isUpdatingFromNetwork
    /\ Synced(nodes, edges)
    /\ last' = Ran("afterDrawing", FALSE)
    /\ UNCHANGED <<nodes, edges, hasData, selectedNodeId, genPending>>

\* handleGenerate on the text of the textarea.
SyncGenerate ==
    /\ Trim(inputValue) # <<>>
    /\ Len(genPending) < MaxPendingGen
    /\ currentInputText' = Trim(inputValue)
    /\ genPending' = Append(genPending, Trim(inputValue))
    /\ last' = Ran("handleGenerate", FALSE)
    /\ UNCHANGED <<nodes, edges, hasData, selectedNodeId, inputValue,
                   isUpdatingFromNetwork, timers, hist>>

\* handleClear: the textarea, currentInputText and networkData are reset; no
\* timer is cleared.
HandleClear ==
    /\ hasData \/ inputValue # <<>>
    /\ inputValue' = <<>>
    /\ currentInputText' = <<>>
    /\ nodes' = <<>>
    /\ edges' = <<>>
    /\ hasData' = FALSE
    /\ last' = Ran("clear", FALSE)
    /\ UNCHANGED <<selectedNodeId, genPending, isUpdatingFromNetwork, timers, hist>>

\* finishEditing ends with the onNodeUpdate callback, which is the sync.
SyncEditNode ==
    /\ EditNode
    /\ Synced(nodes', edges')

\* Tab on a small Document, at the first reading of the clock.
SyncKeyTab ==
    /\ KeyEnabled
    /\ Len(edges) < MaxSyncEdges
    /\ Install("addChild", addChildNode(nodes, edges, selectedNodeId, ClockBase))

SyncNext ==
    \/ UserTypes /\ UNCHANGED <<pureVars, moduleVars>>
    \/ Tick /\ UNCHANGED <<pureVars, moduleVars>>
    \/ DebounceRegenerates /\ UNCHANGED <<pureVars, moduleVars>>
    \/ DebounceSkips /\ UNCHANGED <<pureVars, moduleVars>>
    \/ AfterDrawing /\ UNCHANGED <<pureVars, moduleVars>>
    \/ SyncGenerate /\ UNCHANGED <<pureVars, moduleVars>>
    \/ GenerateTimer /\ UNCHANGED idleVars
    \/ HandleClear /\ UNCHANGED <<pureVars, moduleVars>>
    \/ SelectNode /\ UNCHANGED idleVars
    \/ SyncKeyTab /\ UNCHANGED idleVars
    \/ KeyDelete /\ UNCHANGED idleVars
    \/ SyncEditNode /\ UNCHANGED <<pureVars, moduleVars>>

SpecSync == Init /\ [][SyncNext]_vars

-----------------------------------------------------------------------------
(* Vocabulary of the claims about the sync *)

\* This step is a run of regenerateMindMap by the debounce timer.
Regenerates ==
    last'.op = "regenerate" /\ currentInputText' # currentInputText

\* This step is a user edit of the textarea.
UserTyped ==
    last'.op = "input" /\ inputValue' # inputValue

SyncWriteAloneNeverRegenerates ==
    [][Regenerates => (currentInputText' = hist.synced => hist.typed)]_vars

(* C19: debounce: at any time at most one text-regeneration timer is        *)
(* pending; every user text edit supersedes the pending timer; and a        *)
(* regeneration triggered by text editing happens only when 1000 ms have    *)
(* passed with no user text edit since the edit that armed the timer.       *)
C19_Debounce ==
    /\ [](Len(timers) <= 1)
    /\ [][UserTyped => \A i \in 1 .. Len(timers') : timers'[i].elapsed = 0]_vars
    /\ [][Regenerates => hist.quiet >= DebounceMs]_vars

-----------------------------------------------------------------------------
(* Editor keys on any Document the user can draw: generated, edited,
   exported and imported again *)

MaxKeyEdges == 3       \* edges of a Document the user adds a node to

\* handleExportJSON: the user keeps one exported file.
HandleExportJSON ==
    /\ hasData
    /\ pc = "idle"
    /\ pin' = [name |-> "json",
               content |-> exportToJSON(
                   [nodes |-> nodes, edges |-> edges,
                    metadata |-> Metadata("hierarchical", FALSE, currentInputText)],
                   ClockBase)]
    /\ pc' = "exported"
    /\ last' = Ran("export", FALSE)
    /\ UNCHANGED <<nodes, edges, hasData, selectedNodeId, genPending, pout, syncVars,
                   moduleVars>>

\* handleFileImport on the exported file.
ImportExported ==
    /\ pc = "exported"
    /\ FileImport("json", pin.content, importFromJSON(pin.content))

\* A key pressed with nothing selected: no branch of handleKeyPress is taken.
KeyUnselected ==
    /\ hasData
    /\ selectedNodeId = NullId
    /\ last' = Ran("key", FALSE)
    /\ UNCHANGED <<nodes, edges, hasData, selectedNodeId, genPending>>

KeysNext ==
    \/ HandleGenerate /\ UNCHANGED idleVars
    \/ GenerateTimer /\ UNCHANGED idleVars
    \/ HandleExportJSON
    \/ ImportExported
    \/ SelectNode /\ UNCHANGED idleVars
    \/ KeyUnselected /\ UNCHANGED idleVars
    \/ KeyTab /\ Len(edges) < MaxKeyEdges /\ UNCHANGED idleVars
    \/ KeyEnter /\ Len(edges) < MaxKeyEdges /\ UNCHANGED idleVars
    \/ KeyDelete /\ UNCHANGED idleVars

SpecKeys == Init /\ [][KeysNext]_vars

\* This step is the editor key `op` pressed in a state where its
\* precondition fails: nothing or the root is selected, the selected id is
\* not in the Document, or (add sibling) no edge enters the selected node.
PreconditionFails ==
    /\ last'.op \in {"key", "addChild", "addSibling", "delete"}
    /\ \/ selectedNodeId \in {NullId, RootId}
       \/ selectedNodeId \notin Present
       \/ last'.op = "addSibling" /\ EdgesTo(edges, selectedNodeId) = <<>>

(* C20: editor operations whose precondition fails are silent no-ops that   *)
(* leave the node and edge collections unchanged: delete, add child or add  *)
(* sibling with the root selected or with a selected id that is not in the  *)
(* Document, add sibling on a node without an incoming edge, and any editor *)
(* key with nothing selected.                                               *)
C20_FailedPreconditionIsNoOp ==
    [][PreconditionFails =>
          /\ nodes' = nodes
          /\ edges' = edges
          /\ ~last'.threw]_vars

-----------------------------------------------------------------------------
(* Claims about add child, navigation and the edge and depth invariants *)

\* What add child on the present node p of a Document (ns, es) must leave:
\* one node more, the last one, a leaf with the placeholder text one level
\* below p whose id is new; one edge more, the last one, from p to that node;
\* p a container if it was a leaf; everything else as it was.
ChildAdded(ns, es, p, ns2, es2) ==
    /\ Len(ns2) = Len(ns) + 1
    /\ Len(es2) = Len(es) + 1
    /\ LET child == ns2[Len(ns2)]
           edge == es2[Len(es2)]
       IN  /\ child.id \notin Ids(ns)
           /\ child.shape = BoxShape
           /\ child.label = NewTaskLabel
           /\ child.level = NodeOf(ns, p).level + 1
           /\ edge.from = p
           /\ edge.to = child.id
    /\ \A i \in 1 .. Len(ns) :
          ns2[i] = IF ns[i].id = p /\ ns[i].shape = BoxShape
                   THEN [ns[i] EXCEPT !.shape = DotShape]
                   ELSE ns[i]
    /\ \A i \in 1 .. Len(es) : es2[i] = es[i]

(* C21: add child on an existing non-root node p adds exactly one node and  *)
(* exactly one edge: the new node is a leaf ('box') with the placeholder    *)
(* text and level p.level + 1, the new edge goes from p to it, p becomes a  *)
(* container ('dot') in the same operation if it was a leaf, and no other   *)
(* node or edge changes.                                                    *)
C21_AddChildAddsOneLeaf ==
    [][StepOn("addChild") =>
          ChildAdded(nodes, edges, selectedNodeId, nodes', edges')]_vars

\* The same for the runs of add child that nodes.add did not end: the only
\* run that adds nothing is the one whose clock reading is a present id.
AddChildUnlessIdTaken ==
    [][(StepOn("addChild") /\ ~last'.threw) =>
          ChildAdded(nodes, edges, selectedNodeId, nodes', edges')]_vars

-----------------------------------------------------------------------------
(* Arrow-key navigation: KeyboardController.navigateWithArrows *)

Upward == {"ArrowUp", "ArrowLeft"}
Downward == {"ArrowDown", "ArrowRight"}
Directions == Upward \cup Downward

\* siblings.findIndex(edge => edge.to === id) + 1, for a list that holds one.
FindIndexTo(es, id) ==
    CHOOSE i \in 1 .. Len(es) :
        es[i].to = id /\ \A j \in 1 .. (i - 1) : es[j].to # id

\* targetNodeId of navigateWithArrows, NullId for null.
TargetNodeId(es, sel, direction) ==
    LET parentEdges == EdgesTo(es, sel)         \* edges.find takes the first
        childEdges == EdgesFrom(es, sel)
    IN  IF direction \in Upward
        THEN IF parentEdges # <<>> THEN parentEdges[1].from ELSE NullId
        ELSE IF childEdges # <<>> THEN childEdges[1].to
        ELSE IF parentEdges = <<>> THEN NullId
        ELSE LET siblings == EdgesFrom(es, parentEdges[1].from)
                 currentIndex == FindIndexTo(siblings, sel)
             IN  IF currentIndex < Len(siblings)
                 THEN siblings[currentIndex + 1].to
                 ELSE NullId

\* network.selectNodes([id]) of vis 4.21 throws a RangeError for an id that
\* is not a node of the network; the network holds the nodes of the DataSet.
selectNodesThrows(ns, id) == ~DataSetHas(ns, id)

\* KeyboardController.navigateWithArrows: the selection is assigned after
\* network.selectNodes and network.focus returned.
navigateWithArrows(ns, es, sel, direction) ==
    LET targetNodeId == TargetNodeId(es, sel, direction)
    IN  IF targetNodeId = NullId THEN Outcome(ns, es, sel)
        ELSE IF selectNodesThrows(ns, targetNodeId) THEN Thrown(ns, es, sel)
        ELSE Outcome(ns, es, targetNodeId)

\* Date.now() does not run backwards, and two key presses are more than a
\* millisecond apart: the ids minted since the last generation or import,
\* which the edge collection lists in the order of their minting, increase.
\* (A handler that reads the clock value of a present id adds nothing.)
MintedInOrder ==
    \A i, j \in 1 .. Len(edges) : i < j => edges[i].to < edges[j].to

\* Outlines a user can import as a plain-text file: one that nests by one
\* level, one whose second line skips a level, one whose first line is
\* indented.
OutlineFiles ==
    { Join(<<Line(0, <<"a">>), Line(2, <<"b">>)>>, NL),
      Join(<<Line(0, <<"a">>), Line(4, <<"b">>)>>, NL),
      Join(<<Line(2, <<"a">>), Line(0, <<"b">>)>>, NL) }

\* FreeMind documents a user can import: a root with a child and a
\* grandchild.
MapFiles ==
    { [wellFormed |-> TRUE,
       root |-> Element("map", <<>>,
                  <<Element("node", <<"r">>,
                      <<Element("node", <<"a">>,
                          <<Element("node", <<"b">>, <<>>)>>)>>)>>)] }

\* handleFileImport of a plain-text or FreeMind file.
ImportOutline ==
    \/ \E t \in OutlineFiles : FileImport("txt", t, importFromText(t))
    \/ \E x \in MapFiles : FileImport("mm", x, importFromFreeMind(x))

\* An arrow key
KeyArrow ==
    \E direction \in Directions :
        /\ KeyEnabled
        /\ Install(direction,
                   navigateWithArrows(nodes, edges, selectedNodeId, direction))

NavKeyTab == KeyTab /\ MintedInOrder'

NavKeyEnter == KeyEnter /\ MintedInOrder'

NavNext ==
    \/ HandleGenerate /\ UNCHANGED idleVars
    \/ GenerateTimer /\ UNCHANGED idleVars
    \/ SelectNode /\ UNCHANGED idleVars
    \/ NavKeyTab /\ UNCHANGED idleVars
    \/ NavKeyEnter /\ UNCHANGED idleVars
    \/ KeyDelete /\ UNCHANGED idleVars
    \/ KeyArrow /\ UNCHANGED idleVars
    \/ ImportOutline

SpecNav == Init /\ [][NavNext]_vars

\* The present nodes with an edge to c.
ParentsOf(ns, es, c) ==
    { es[i].from : i \in { k \in 1 .. Len(es) :
                              es[k].to = c /\ es[k].from \in Ids(ns) } }

\* The edges from p to its present children, in the order of the collection.
ChildOrder(ns, es, p) ==
    SelectSeq(es, LAMBDA e : e.from = p /\ e.to \in Ids(ns))

\* The neighbour of c that the direction names in the Document (ns, es), c
\* itself when there is none.
Neighbour(ns, es, c, direction) ==
    LET parents == ParentsOf(ns, es, c)
        kids == PresentChildren(ns, es, c)
    IN  IF direction \in Upward
        THEN IF parents = {} THEN c ELSE CHOOSE p \in parents : TRUE
        ELSE IF kids # {} THEN CHOOSE k \in kids : \A j \in kids : k <= j
        ELSE IF parents = {} THEN c
        ELSE LET siblings == ChildOrder(ns, es, CHOOSE p \in parents : TRUE)
                 i == FindIndexTo(siblings, c)
             IN  IF i < Len(siblings) THEN siblings[i + 1].to ELSE c

\* A step in which an arrow key was handled with a present node selected that
\* has at most one parent.
ArrowStep ==
    /\ last'.op \in Directions
    /\ hasData
    /\ selectedNodeId \in Present
    /\ Cardinality(ParentsOf(nodes, edges, selectedNodeId)) <= 1

\* No edge of the collection has a removed node at one of its ends.
NoStaleEdge ==
    \A i \in 1 .. Len(edges) : {edges[i].from, edges[i].to} \subseteq Present

(* C22: with node c selected, 'up'/'left' selects c's unique parent;        *)
(* 'down'/'right' selects c's first child, the child with the lowest id     *)
(* among c's outgoing edges, or, when c has no child, the sibling that      *)
(* follows c in its parent's child order; when no such neighbour exists the *)
(* selection is unchanged.                                                  *)
C22_Navigate ==
    [][ArrowStep =>
          selectedNodeId' =
              Neighbour(nodes, edges, selectedNodeId, last'.op)]_vars

\* The same for the Documents whose edge collection has no leftover of a
\* delete.
NavigateWithoutStaleEdges ==
    [][(ArrowStep /\ NoStaleEdge) =>
          /\ selectedNodeId' =
                Neighbour(nodes, edges, selectedNodeId, last'.op)
          /\ ~last'.threw]_vars

DepthInvariant ==
    /\ \A i \in 1 .. Len(nodes) : nodes[i].id = RootId => nodes[i].level = 0
    /\ \A i \in 1 .. Len(edges) :
          {edges[i].from, edges[i].to} \subseteq Present =>
              NodeOf(nodes, edges[i].to).level =
                  NodeOf(nodes, edges[i].from).level + 1

\* The node that add sibling added has the level of the selected node and an
\* edge from the selected node's parent.
SiblingAdded ==
    LET sibling == nodes'[Len(nodes')]
        edge == edges'[Len(edges')]
    IN  /\ sibling.level = NodeOf(nodes, selectedNodeId).level
        /\ edge.to = sibling.id
        /\ {edge.from} = ParentsOf(nodes, edges, selectedNodeId)

(* C24: depth invariant: in every Document produced by buildNetworkData,    *)
(* importFromText (for every indentation pattern, including lines that skip *)
(* levels) or importFromFreeMind and then changed by add child and add      *)
(* sibling, every edge between present nodes satisfies level(target) =      *)
(* level(source) + 1, with level(root) = 0; in particular a node added by   *)
(* add sibling has the level and the parent of the selected node.           *)
C24_Depth ==
    /\ [](hasData => DepthInvariant)
    /\ [][(StepOn("addSibling") /\ Len(nodes') > Len(nodes)) => SiblingAdded]_vars

\* The second half of C24 alone.
SiblingKeepsLevelAndParent ==
    [][(StepOn("addSibling") /\ Len(nodes') > Len(nodes)) => SiblingAdded]_vars

\* The plain-text files in which a line is indented by more than one level
\* beyond the line it hangs under.
SkipsLevel(text) ==
    LET doc == importFromText(text)
    IN  \E i \in 1 .. Len(doc.edges) :
           NodeOf(doc.nodes, doc.edges[i].to).level
               # NodeOf(doc.nodes, doc.edges[i].from).level + 1

\* The first half of C24 for the Documents that do not stem from a
\* plain-text file that skips a level.
DepthUnlessImportSkipsLevel ==
    (hasData /\ ~(pc = "import" /\ pin.name = "txt" /\ SkipsLevel(pin.content)))
        => DepthInvariant

-----------------------------------------------------------------------------
(* Share links: url-state.js encodeStateToURL, decodeStateFromURL *)

DefaultLayout == "hierarchical"

\* The object handleShareLink passes: the collections and the metadata bag.
DataToShare(d, layout, autoGroup, inputText) ==
    [nodes |-> d.nodes, edges |-> d.edges, layout |-> layout,
     autoGroup |-> autoGroup, inputText |-> inputText]

\* LZString.compressToEncodedURIComponent of lz-string 1.4.4: the token is
\* the text it was made from, marked as compressed.
compressToEncodedURIComponent(jsonString) == [lz |-> jsonString]

\* LZString.decompressFromEncodedURIComponent: the text of the token.
decompressFromEncodedURIComponent(hash) == hash.lz

\* plainData.metadata of encodeStateToURL with new Date() reading `now`.
PlainMetadata(data, now) ==
    <<<<"version", "1.0">>, <<"created", now>>,
      <<"layout", IF data.layout # "" THEN data.layout ELSE DefaultLayout>>,
      <<"autoGroup", data.autoGroup>>>>

\* URLState.encodeStateToURL(data) with new Date() reading `now`:
\* JSON.stringify(plainData), compressed.
encodeStateToURL(data, now) ==
    compressToEncodedURIComponent(
        [ok |-> TRUE,
         top |-> <<<<"nodes", [i \in 1 .. Len(data.nodes) |->
                                  NodeToJson(data.nodes[i])]>>,
                   <<"edges", [i \in 1 .. Len(data.edges) |->
                                  EdgeToJson(data.edges[i])]>>,
                   <<"metadata", MetadataToJson(PlainMetadata(data, now))>>>>])

\* URLState.decodeStateFromURL() with the hash `hash` in the address bar:
\* decompress, JSON.parse, and the test for nodes and edges.
decodeStateFromURL(hash) ==
    LET json == decompressFromEncodedURIComponent(hash)
    IN  IF ~json.ok THEN Null
        ELSE IF ~HasKey(json.top, "nodes") \/ ~HasKey(json.top, "edges") THEN Null
        ELSE LET ns == GetKey(json.top, "nodes")
                 es == GetKey(json.top, "edges")
             IN  [nodes |-> [i \in 1 .. Len(ns) |-> NodeFromJson(ns[i])],
                  edges |-> [i \in 1 .. Len(es) |-> EdgeFromJson(es[i])],
                  metadata |-> IF HasKey(json.top, "metadata")
                               THEN MetadataFromJson(GetKey(json.top, "metadata"))
                               ELSE <<>>]

\* The values of the layout select.
Layouts == {"hierarchical", "force"}

\* What the user shares: a built Document, the layout, the auto-group box and
\* the text the Document was generated from.
ShareInit ==
    /\ EditorInit
    /\ pout = <<>>
    /\ pc = "ready"
    /\ \E o \in CodecOutlines, italic \in BOOLEAN,
          layout \in Layouts, autoGroup \in BOOLEAN :
          pin = DataToShare(buildNetworkData(parseHierarchicalTasks(o), italic),
                            layout, autoGroup, o)

\* handleShareLink puts the token into the address bar; pout is what
\* decodeStateFromURL makes of it.
ShareLink ==
    \E now \in ClockReadings :
        /\ pc = "ready"
        /\ pout' = decodeStateFromURL(encodeStateToURL(pin, now))
        /\ pc' = "shared"
        /\ UNCHANGED <<pin, appVars>>

\* urlData.metadata.inputText, '' when there is none.
SharedText(urlData) ==
    IF HasKey(urlData.metadata, "inputText")
    THEN GetKey(urlData.metadata, "inputText")
    ELSE <<>>

\* init on a page opened by the link: the input text, if any, goes to the
\* textarea, and drawNetwork installs the collections.
LoadLink ==
    /\ pc = "shared"
    /\ pout # Null
    /\ pc' = "loaded"
    /\ IF SharedText(pout) # <<>>
       THEN /\ inputValue' = SharedText(pout)
            /\ currentInputText' = SharedText(pout)
       ELSE UNCHANGED <<inputValue, currentInputText>>
    /\ nodes' = pout.nodes
    /\ edges' = pout.edges
    /\ hasData' = TRUE
    /\ last' = Ran("load", FALSE)
    /\ UNCHANGED <<pin, pout, selectedNodeId, genPending,
                   isUpdatingFromNetwork, timers, hist, moduleVars>>

ShareNext ==
    \/ ShareLink
    \/ LoadLink

SpecShare == ShareInit /\ [][ShareNext]_vars

\* The collections, the layout and the auto-group flag of the decoded link
\* are those that were shared.
SharedAllButText ==
    /\ pout # Null
    /\ pout.nodes = pin.nodes
    /\ pout.edges = pin.edges
    /\ HasKey(pout.metadata, "layout")
    /\ GetKey(pout.metadata, "layout") = pin.layout
    /\ HasKey(pout.metadata, "autoGroup")
    /\ GetKey(pout.metadata, "autoGroup") = pin.autoGroup

(* C25: share-link round trip: for every Document and metadata bag (layout, *)
(* autoGroup, inputText) passed to encodeStateToURL, decoding the resulting *)
(* hash yields the same nodes and edges and a metadata bag with the same    *)
(* layout, the same autoGroup flag and the same inputText, so that loading  *)
(* the link restores the input text that was shared.                        *)
C25_ShareLinkRoundTrip ==
    /\ pc \in {"shared", "loaded"} =>
          SharedAllButText /\ SharedText(pout) = pin.inputText
    /\ pc = "loaded" => inputValue = pin.inputText

\* The same without the input text.
ShareLinkKeepsDocumentAndSettings ==
    pc \in {"shared", "loaded"} => SharedAllButText

-----------------------------------------------------------------------------
(* Undo / redo history: HistoryManager *)

\* new HistoryManager(maxStates)
HistoryManager(maxStates) ==
    [currentIndex |-> -1, maxStates |-> maxStates, states |-> <<>>,
     enabled |-> TRUE]

\* The state saveState clones from networkData, with Date.now() reading `now`.
HistoryState(networkData, now) ==
    [nodes |-> networkData.nodes, edges |-> networkData.edges, timestamp |-> now]

\* HistoryManager.canUndo
canUndo(h) == h.currentIndex > 0

\* HistoryManager.canRedo
canRedo(h) == h.currentIndex < Len(h.states) - 1

\* saveState that pushes onto all the states it holds, without the slice.
saveStateKeepsRedo(h, networkData, now) ==
    IF ~h.enabled \/ networkData = Null THEN h
    ELSE LET pushed == Append(h.states, HistoryState(networkData, now))
         IN  IF Len(pushed) > h.maxStates
             THEN [h EXCEPT !.states = Tail(pushed)]
             ELSE [h EXCEPT !.states = pushed, !.currentIndex = @ + 1]

\* HistoryManager.saveState(networkData) with Date.now() reading `now`:
\* states.slice(0, currentIndex + 1), push, then shift or currentIndex++.
saveState(h, networkData, now) ==
    IF ~h.enabled \/ networkData = Null THEN h
    ELSE LET kept == SubSeq(h.states, 1, h.currentIndex + 1)
             pushed == Append(kept, HistoryState(networkData, now))
         IN  IF Len(pushed) > h.maxStates
             THEN [h EXCEPT !.states = Tail(pushed)]
             ELSE [h EXCEPT !.states = pushed, !.currentIndex = @ + 1]

\* HistoryManager.undo: the instance it leaves and the value it returns.
\* states[i] of the code is states[i + 1] here.
undo(h) ==
    IF ~canUndo(h) THEN [h |-> h, returned |-> Null]
    ELSE [h |-> [h EXCEPT !.currentIndex = @ - 1],
          returned |-> h.states[h.currentIndex]]

\* HistoryManager.redo
redo(h) ==
    IF ~canRedo(h) THEN [h |-> h, returned |-> Null]
    ELSE [h |-> [h EXCEPT !.currentIndex = @ + 1],
          returned |-> h.states[h.currentIndex + 2]]

\* HistoryManager.clear
clear(h) == [h EXCEPT !.states = <<>>, !.currentIndex = -1]

\* HistoryManager.setEnabled
setEnabled(h, enabled) == [h EXCEPT !.enabled = enabled]

\* Bound of the history specification.
MaxHistoryStates == 3     \* the largest maxStates an instance is built with

\* The Documents a caller saves.
HistoryDocuments ==
    { buildNetworkData(parseHierarchicalTasks(t), FALSE) :
        t \in { <<"a">>, <<"b">> } }

\* An instance is constructed, with a limit of 0 to MaxHistoryStates states.
HistoryInit ==
    /\ SyncIdle
    /\ listeners = 0
    /\ nodes = <<>>
    /\ edges = <<>>
    /\ hasData = FALSE
    /\ selectedNodeId = NullId
    /\ genPending = <<>>
    /\ last = NoOp
    /\ PureIdle
    /\ \E maxStates \in 0 .. MaxHistoryStates :
          history = HistoryManager(maxStates)

\* A call of a method of the instance: pin is its argument, pout the value it
\* returns, pc the method.
Called(method, argument, h, returned) ==
    /\ history' = h
    /\ pin' = argument
    /\ pout' = returned
    /\ pc' = method
    /\ last' = Ran(method, FALSE)
    /\ UNCHANGED <<nodes, edges, hasData, selectedNodeId, genPending,
                   syncVars, listeners>>

SaveState ==
    \E networkData \in HistoryDocuments \cup {Null}, now \in ClockReadings :
        Called("saveState", <<networkData>>,
               saveState(history, networkData, now), <<>>)

Undo == Called("undo", <<>>, undo(history).h, undo(history).returned)

Redo == Called("redo", <<>>, redo(history).h, redo(history).returned)

Clear == Called("clear", <<>>, clear(history), <<>>)

SetEnabled ==
    \E enabled \in BOOLEAN :
        Called("setEnabled", <<enabled>>, setEnabled(history, enabled), <<>>)

HistoryNext ==
    \/ SaveState
    \/ Undo
    \/ Redo
    \/ Clear
    \/ SetEnabled

SpecHistory == HistoryInit /\ [][HistoryNext]_vars

(* C26: after any sequence of saveState, undo, redo, clear and setEnabled   *)
(* calls, -1 <= currentIndex <= states.length - 1 and states.length <=      *)
(* maxStates; immediately after a saveState that ran enabled (with data to  *)
(* save) the current index is the last state and canRedo() is false; undo   *)
(* and redo return null and change nothing when canUndo() / canRedo() is    *)
(* false.                                                                   *)
C26_HistoryInvariant ==
    /\ [](/\ -1 <= history.currentIndex
          /\ history.currentIndex <= Len(history.states) - 1
          /\ Len(history.states) <= history.maxStates)
    /\ [][(pc' = "saveState" /\ history.enabled /\ pin' # <<Null>>) =>
             /\ history'.currentIndex = Len(history'.states) - 1
             /\ ~canRedo(history')]_vars
    /\ [][(pc' = "undo" /\ ~canUndo(history)) =>
             pout' = Null /\ history' = history]_vars
    /\ [][(pc' = "redo" /\ ~canRedo(history)) =>
             pout' = Null /\ history' = history]_vars

\* An undo was refused at the first state of a full history, which saves
\* filled and undos walked back.
C26_Witness_FullHistoryAtFirstState ==
    /\ pc = "undo"
    /\ pout = Null
    /\ history.maxStates = MaxHistoryStates
    /\ Len(history.states) = MaxHistoryStates
    /\ history.currentIndex = 0
    /\ canRedo(history)

-----------------------------------------------------------------------------
(* Key presses: one keydown listener per KeyboardController.init *)

\* Bound of the key-press specification.
MaxListeners == 2     \* drawNetwork calls, each of which adds a listener

Keys == {"Tab", "Enter", "Delete"}

\* KeyboardController.handleKeyPress for one of these keys, with Date.now()
\* reading `now`: each branch asks for a selected node.
handleKeyPress(key, ns, es, sel, now) ==
    IF sel = NullId THEN Outcome(ns, es, sel)
    ELSE IF key = "Tab" THEN addChildNode(ns, es, sel, now)
    ELSE IF key = "Enter" THEN addSiblingNode(ns, es, sel, now)
    ELSE deleteNode(ns, es, sel)

RECURSIVE Dispatch(_, _, _)
\* The dispatch of one keydown event to the listeners in the order they were
\* added: listener i runs handleKeyPress on what the listeners before it
\* left, reading the clock value reads[i]; an exception in one listener does
\* not keep the next from running.
Dispatch(key, r, reads) ==
    IF reads = <<>> THEN r
    ELSE LET s == handleKeyPress(key, r.nodes, r.edges, r.sel, Head(reads))
         IN  Dispatch(key, [s EXCEPT !.threw = r.threw \/ s.threw], Tail(reads))

\* The clock values n listeners read during one dispatch: the first is later
\* than every id minted before, and the clock does not run backwards.
ClockRuns(n) ==
    { reads \in [1 .. n -> ClockReadings] :
        /\ \A i \in 1 .. Len(edges) : edges[i].to < reads[1]
        /\ \A i \in 1 .. (n - 1) : reads[i] <= reads[i + 1] }

\* handleGenerate, as often as the bound on the drawNetwork calls allows.
ListenHandleGenerate ==
    /\ listeners + Len(genPending) < MaxListeners
    /\ HandleGenerate

\* drawNetwork: KeyboardController.init adds one more keydown listener.
DrawNetwork ==
    /\ GenerateTimer
    /\ listeners' = listeners + 1

\* The user presses a key once.
KeyPress ==
    \E key \in Keys :
        /\ KeyEnabled
        /\ listeners > 0
        /\ \E reads \in ClockRuns(listeners) :
              Install(key, Dispatch(key, Outcome(nodes, edges, selectedNodeId),
                                    reads))

ListenNext ==
    \/ ListenHandleGenerate /\ UNCHANGED idleVars
    \/ DrawNetwork /\ UNCHANGED <<pureVars, syncVars, history>>
    \/ SelectNode /\ UNCHANGED idleVars
    \/ KeyPress /\ UNCHANGED idleVars

SpecListeners == Init /\ [][ListenNext]_vars

\* A step in which the key was pressed with a present non-root node selected.
Pressed(key) ==
    /\ last'.op = key
    /\ hasData
    /\ selectedNodeId \in Present \ {RootId}

\* What one operation of the key does to the collections: Tab and Enter add
\* one node and one edge, Delete removes the selected node and its
\* descendants.
OneOperation ==
    /\ (Pressed("Tab") \/ Pressed("Enter")) =>
          /\ Len(nodes') = Len(nodes) + 1
          /\ Len(edges') = Len(edges) + 1
          /\ ~last'.threw
    /\ Pressed("Delete") =>
          /\ Ids(nodes') = Present \ Subtree(edges, selectedNodeId)
          /\ ~last'.threw

(* C27: one key press performs exactly one editor operation, however many   *)
(* times the network has been drawn before: a single Tab adds exactly one   *)
(* node and one edge, a single Enter adds exactly one sibling, a single     *)
(* Delete runs one delete.                                                  *)
C27_OneKeyOneOperation ==
    [][OneOperation]_vars

\* The same while the network has been drawn once.
OneOperationAfterOneDraw ==
    [][listeners = 1 => OneOperation]_vars

-----------------------------------------------------------------------------
(* Claims about Clear and about the fate of a user's text edit *)

\* A step that draws a graph where there was none.
Draws == ~hasData /\ hasData'

(* C28: after Clear the Document stays discarded: once handleClear has run  *)
(* no graph is drawn and networkData stays null until the user invokes      *)
(* Generate (or toggles auto-group, or imports a file).  There is no        *)
(* networkData before the first Generate and after a Clear only, so: a      *)
(* graph is drawn where there was none only by the timer of a Generate, and *)
(* not by the step that follows a Clear, before which no Generate can have  *)
(* been invoked.                                                            *)
C28_ClearDiscards ==
    [][Draws => (last'.op = "generate" /\ last.op # "clear")]_vars

\* The first half alone: only the timer of a Generate draws where there was
\* no graph.
OnlyGenerateDrawsAnew ==
    [][Draws => last'.op = "generate"]_vars

\* The second half alone: the step after a Clear draws nothing.
NothingDrawnRightAfterClear ==
    [][Draws => last.op # "clear"]_vars

\* A user edit waits for its timer: a graph exists, the last change of the
\* textarea was the user's, the timer that edit set is pending, and the text
\* is not empty and differs from the last generated or synced text.
EditAwaitsTimer ==
    /\ hasData
    /\ hist.typed
    /\ \E i \in 1 .. Len(timers) : timers[i].current
    /\ Trim(inputValue) # <<>>
    /\ Trim(inputValue) # currentInputText

\* A step in which a pending timer of handleTextareaChange ran.
TimerRan == Len(timers') < Len(timers)

(* C29: a user text edit is not lost: if, while a graph exists, the user    *)
(* changes the text to a non-empty value different from the last generated  *)
(* or synced text and makes no further edit, then in every interleaving     *)
(* with redraw events the debounce timer fires and the graph is regenerated *)
(* from exactly the text the user typed.  The timer reads the textarea when *)
(* it fires, so: no redraw event changes the textarea while the edit waits  *)
(* for its timer, and the timer that then runs regenerates from that text.  *)
C29_EditNotLost ==
    /\ [][(EditAwaitsTimer /\ last'.op = "afterDrawing") =>
             inputValue' = inputValue]_vars
    /\ [][(EditAwaitsTimer /\ TimerRan) =>
             /\ last'.op = "regenerate"
             /\ currentInputText' = Trim(inputValue)
             /\ nodes' = Regenerated(Trim(inputValue)).nodes
             /\ edges' = Regenerated(Trim(inputValue)).edges]_vars

\* The second half alone: an edit that is still in the textarea when its
\* timer runs is regenerated from.
SurvivingEditIsRegenerated ==
    [][(EditAwaitsTimer /\ TimerRan) =>
          /\ last'.op = "regenerate"
          /\ currentInputText' = Trim(inputValue)
          /\ nodes' = Regenerated(Trim(inputValue)).nodes
          /\ edges' = Regenerated(Trim(inputValue)).edges]_vars

(* C30: navigation and selection only ever refer to existing nodes: after   *)
(* any sequence of generate, add child, add sibling, delete and arrow-key   *)
(* navigation, selectedNodeId is either null or the id of a node present in *)
(* the Document; in particular navigating down from a node whose children   *)
(* were all deleted does not select a deleted node.  (pc = "idle": no file  *)
(* was imported.)                                                           *)
C30_SelectionIsPresent ==
    (hasData /\ pc = "idle") => selectedNodeId \in Present \cup {NullId}

\* No handler of a key or a click moves the selection to a missing node: the
\* selection is stale only where a draw replaced the Document under it, or
\* where a delete ended in an exception before it reset the selection.
HandlersSelectPresentNodes ==
    [][selectedNodeId' # selectedNodeId =>
          selectedNodeId' \in Ids(nodes') \cup {NullId}]_vars
=============================================================================
